---- MODULE Spec2Model ----
(***************************************************************************)
(* Model of the supervisor-service patch engine: SmartPatcher.runPlan, the *)
(* security envelope (applySecurityConstraints / createConservativeEnve-   *)
(* lope), the glob validator validateFilePath, the POST /v1/patch route,   *)
(* the configuration loader (config.ts) and the observation registry      *)
(* (registry.ts, and the CLI's updateRegistry).                            *)
(*                                                                         *)
(* Strings (file paths, file contents, search/anchor texts, hashes) are    *)
(* sequences of letters.  A letter is written as a short TLA+ string such  *)
(* as "/", "w", ".env" or "import": it stands for one character of an      *)
(* alphabet in which no letter is part of another, so that startsWith,     *)
(* endsWith, includes, indexOf, slice and split are computed on the        *)
(* sequences exactly as JavaScript computes them on the strings.           *)
(* Indices are the 0-based indices of the source.                          *)
(***************************************************************************)
EXTENDS Integers, Sequences, FiniteSets, TLC

VARIABLES pc, files, files0, plan, envelope, reqEnvelope, dryRun, idx, results, fsLog, stratLog, response, call,
          config, defaultRegistry, registry, registryFile, mergeLog, updaters

\* The state of a run of the patch engine, without the record of the last call
runVars == <<pc, files, files0, plan, envelope, reqEnvelope, dryRun, idx, results, fsLog, stratLog, response>>

\* The configuration singleton of config.ts; DEFAULT_REGISTRY of registry.ts,
\* the registry a caller holds, the registry file, the history of the
\* observations merged, and the processes of the command-line tool that
\* update the registry file side by side
serviceVars == <<config, defaultRegistry, registry, registryFile, mergeLog, updaters>>

registryVars == <<defaultRegistry, registry, registryFile, mergeLog, updaters>>

vars == <<runVars, call, serviceVars>>

----------------------------------------------------------------------------
(* String primitives *)

Slice(s, a, b) == SubSeq(s, a + 1, b)

StartsWith(s, p) == Len(p) <= Len(s) /\ SubSeq(s, 1, Len(p)) = p

EndsWith(s, p) == Len(p) <= Len(s) /\ SubSeq(s, Len(s) - Len(p) + 1, Len(s)) = p

MatchAt(s, p, i) == i >= 0 /\ i + Len(p) <= Len(s) /\ Slice(s, i, i + Len(p)) = p

\* The least / the greatest of a set of indices, or -1 when there is none
Least(hits) == IF hits = {} THEN -1 ELSE CHOOSE i \in hits : \A j \in hits : i <= j

Greatest(hits) == IF hits = {} THEN -1 ELSE CHOOSE i \in hits : \A j \in hits : i >= j

IndexOfFrom(s, p, from) == Least({i \in from..Len(s) : MatchAt(s, p, i)})

IndexOf(s, p) == IndexOfFrom(s, p, 0)

LastIndexOf(s, p) == Greatest({i \in 0..Len(s) : MatchAt(s, p, i)})

Includes(s, p) == IndexOf(s, p) # -1

\* String.prototype.replace with a string pattern: the first occurrence only.
\* (The alphabet has no "$", so the replacement text has no special patterns.)
ReplaceAt(s, i, n, r) == IF i = -1 THEN s ELSE Slice(s, 0, i) \o r \o Slice(s, i + n, Len(s))

ReplaceFirst(s, p, r) == ReplaceAt(s, IndexOf(s, p), Len(p), r)

\* String.prototype.split with a non-empty separator.
RECURSIVE SplitAt(_, _, _)
SplitAt(s, sep, i) ==
    IF i = -1 THEN <<s>>
    ELSE <<Slice(s, 0, i)>> \o SplitAt(Slice(s, i + Len(sep), Len(s)), sep,
                                        IndexOf(Slice(s, i + Len(sep), Len(s)), sep))

Split(s, sep) == SplitAt(s, sep, IndexOf(s, sep))

RECURSIVE Join(_, _)
Join(parts, sep) ==
    IF parts = <<>> THEN <<>>
    ELSE IF Len(parts) = 1 THEN parts[1]
    ELSE parts[1] \o sep \o Join(Tail(parts), sep)

----------------------------------------------------------------------------
(* node:path and process.cwd() *)

ProcessCwd == <<"/", "w">>

\* Resolution of the segments of a path: "" and "." are dropped, ".." pops.
RECURSIVE ResolveSegments(_, _)
ResolveSegments(segs, acc) ==
    IF segs = <<>> THEN acc
    ELSE IF Head(segs) = <<>> \/ Head(segs) = <<".">> THEN ResolveSegments(Tail(segs), acc)
    ELSE IF Head(segs) = <<"..">>
         THEN ResolveSegments(Tail(segs), IF acc = <<>> THEN acc ELSE SubSeq(acc, 1, Len(acc) - 1))
    ELSE ResolveSegments(Tail(segs), Append(acc, Head(segs)))

\* A relative path is resolved against the working directory
Absolute(p) == IF StartsWith(p, <<"/">>) THEN p ELSE ProcessCwd \o <<"/">> \o p

PathResolve(p) == <<"/">> \o Join(ResolveSegments(Split(Absolute(p), <<"/">>), <<>>), <<"/">>)

----------------------------------------------------------------------------
(* validators.ts: glob matching and validateFilePath *)

Star == <<"*">>

Star2 == <<"*", "*">>

\* const [prefix, suffix] = parts: the three-way test on the two halves
PrefixSuffix(path, parts) ==
    IF parts[1] = <<>> THEN EndsWith(path, parts[2])
    ELSE IF parts[2] = <<>> THEN StartsWith(path, parts[1])
    ELSE StartsWith(path, parts[1]) /\ EndsWith(path, parts[2])

MatchesPattern(path, pattern) ==
    IF pattern = path THEN TRUE
    ELSE IF pattern = Star THEN TRUE
    ELSE IF Includes(pattern, Star2) /\ Len(Split(pattern, Star2)) = 2
         THEN PrefixSuffix(path, Split(pattern, Star2))
    ELSE IF EndsWith(pattern, Star) /\ ~EndsWith(pattern, Star2)
         THEN StartsWith(path, SubSeq(pattern, 1, Len(pattern) - 1))
    ELSE IF StartsWith(pattern, Star) /\ ~StartsWith(pattern, Star2)
         THEN EndsWith(path, Tail(pattern))
    ELSE IF Includes(pattern, Star) /\ ~Includes(pattern, Star2) /\ Len(Split(pattern, Star)) = 2
         THEN PrefixSuffix(path, Split(pattern, Star))
    ELSE FALSE

ValidateFilePathAllowFirst(filePath, allowPaths, denyPaths) ==
    IF \E i \in 1..Len(allowPaths) : MatchesPattern(filePath, allowPaths[i]) THEN TRUE
    ELSE IF \E i \in 1..Len(denyPaths) : MatchesPattern(filePath, denyPaths[i]) THEN FALSE
    ELSE Len(allowPaths) = 0

ValidateFilePath(filePath, allowPaths, denyPaths) ==
    IF \E i \in 1..Len(denyPaths) : MatchesPattern(filePath, denyPaths[i]) THEN FALSE
    ELSE IF \E i \in 1..Len(allowPaths) : MatchesPattern(filePath, allowPaths[i]) THEN TRUE
    ELSE Len(allowPaths) = 0

----------------------------------------------------------------------------
(* Nullable values: string | null, and the null position of the matchers *)

Null == [ok |-> FALSE, val |-> <<>>]

Some(s) == [ok |-> TRUE, val |-> s]

NullPos == -1

----------------------------------------------------------------------------
(* anchors.ts *)

\* A matcher that takes the last occurrence of the anchor
FindAfterLastAnchor(content, anchor) ==
    IF content = <<>> \/ anchor = <<>> THEN NullPos
    ELSE IF LastIndexOf(content, anchor) = -1 THEN NullPos
    ELSE LastIndexOf(content, anchor) + Len(anchor)

\* The anchor is escaped before it becomes a RegExp: a literal first occurrence.
FindAfterAnchor(content, anchor) ==
    IF content = <<>> \/ anchor = <<>> THEN NullPos
    ELSE IF IndexOf(content, anchor) = -1 THEN NullPos
    ELSE IndexOf(content, anchor) + Len(anchor)

FindBeforeAnchor(content, anchor) ==
    IF content = <<>> \/ anchor = <<>> THEN NullPos
    ELSE IF IndexOf(content, anchor) = -1 THEN NullPos
    ELSE IndexOf(content, anchor)

InsertAt(content, position, insert) ==
    IF content = <<>> \/ position < 0 \/ position > Len(content) THEN content
    ELSE Slice(content, 0, position) \o insert \o Slice(content, position, Len(content))

\* applyAnchorPatch from the position the matcher returned: null stays null,
\* else the offset is added and the position checked against the bounds
InsertAtAnchor(content, op, position) ==
    IF position = NullPos THEN Null
    ELSE IF op.hasOffset /\ (position + op.offset < 0 \/ position + op.offset > Len(content)) THEN Null
    ELSE IF ~op.hasOffset /\ (position < 0 \/ position > Len(content)) THEN Null
    ELSE Some(InsertAt(content, IF op.hasOffset THEN position + op.offset ELSE position, op.insert))

ApplyAnchorPatch(content, op) ==
    IF content = <<>> \/ op.anchor = <<>> \/ op.insert = <<>> THEN Null
    ELSE IF op.position = "after" THEN InsertAtAnchor(content, op, FindAfterAnchor(content, op.anchor))
    ELSE InsertAtAnchor(content, op, FindBeforeAnchor(content, op.anchor))

----------------------------------------------------------------------------
(* ast.ts: the regex-based stubs, matched letter by letter *)

IsWs(c) == c \in {" ", "LF"}

Quotes == {"'", "\""}

RECURSIVE Trim(_)
Trim(s) ==
    IF s = <<>> THEN s
    ELSE IF IsWs(Head(s)) THEN Trim(Tail(s))
    ELSE IF IsWs(s[Len(s)]) THEN Trim(SubSeq(s, 1, Len(s) - 1))
    ELSE s

LetterAt(s, i) == IF i >= 0 /\ i < Len(s) THEN s[i + 1] ELSE "<eof>"

\* Pieces of a regular expression, matched at index i of s; each gives the index
\* after its match, and -1 when it does not match or when i is -1 already.
\* One letter of the set cs:
Lit(s, i, cs) == IF i # -1 /\ LetterAt(s, i) \in cs THEN i + 1 ELSE -1

\* \s* :
Ws(s, i) == IF i = -1 THEN -1 ELSE Least({j \in i..Len(s) : ~IsWs(LetterAt(s, j))})

\* [^c]*c for the letters c of cs: up to and including the first letter of cs
After(j) == IF j = -1 THEN -1 ELSE j + 1

Until(s, i, cs) == IF i = -1 THEN -1 ELSE After(Least({j \in i..(Len(s) - 1) : s[j + 1] \in cs}))

\* import\s*{([^}]*)}\s*from\s*['"]([^'"]*)['"] matched at index i: the indices
\* after the opening brace, the closing brace, the opening quote and the
\* closing quote
ImportOpen(s, i) == Lit(s, Ws(s, Lit(s, i, {"import"})), {"{"})

ImportClose(s, i) == Until(s, ImportOpen(s, i), {"}"})

ImportQuote(s, i) == Lit(s, Ws(s, Lit(s, Ws(s, ImportClose(s, i)), {"from"})), Quotes)

ImportEnd(s, i) == Until(s, ImportQuote(s, i), Quotes)

NoMatch == [ok |-> FALSE, inner |-> <<>>, mod |-> <<>>, start |-> -1, end |-> -1]

\* The match at index i: the brace contents, the quoted module, start and end
ImportMatchAt(s, i) ==
    IF i = -1 \/ ImportEnd(s, i) = -1 THEN NoMatch
    ELSE [ok |-> TRUE, inner |-> Slice(s, ImportOpen(s, i), ImportClose(s, i) - 1),
          mod |-> Slice(s, ImportQuote(s, i), ImportEnd(s, i) - 1), start |-> i, end |-> ImportEnd(s, i)]

\* The indices at which the import pattern matches
ImportStarts(s) == {i \in 0..(Len(s) - 1) : ImportMatchAt(s, i).ok}

\* /import[^;]*;/g : the text of the last of the non-overlapping matches
\* The index after the first "import ... ;" at or after index from, or -1
ImportStatementEnd(s, from) == Until(s, Lit(s, IndexOfFrom(s, <<"import">>, from), {"import"}), {";"})

RECURSIVE LastImportStatement(_, _)
LastImportStatement(s, from) ==
    IF ImportStatementEnd(s, from) = -1 THEN Null
    ELSE IF LastImportStatement(s, ImportStatementEnd(s, from)).ok
         THEN LastImportStatement(s, ImportStatementEnd(s, from))
    ELSE Some(Slice(s, IndexOfFrom(s, <<"import">>, from), ImportStatementEnd(s, from)))

\* The tokens that are no word characters (\w) of a regular expression
NonWordTokens == {" ", "LF", "{", "}", "'", "\"", ";", ",", "$", "*", "//", "/*", "#!", "(", ")", "<eof>"}

IsWordToken(t) == t \notin NonWordTokens

\* \b at index k of text
WordBoundary(text, k) == IsWordToken(LetterAt(text, k - 1)) # IsWordToken(LetterAt(text, k))

\* A name spliced unescaped into a regular expression, matched at index k of
\* the text between two braces: "$" is the end-of-line assertion, met before a
\* line feed with the m flag and never without it (a brace follows the text);
\* every other token stands for itself. The index after the match, or -1.
RECURSIVE NameEnd(_, _, _, _)
NameEnd(text, k, name, multiline) ==
    IF k = -1 \/ name = <<>> THEN k
    ELSE IF Head(name) = "$"
         THEN IF multiline /\ LetterAt(text, k) = "LF" THEN NameEnd(text, k, Tail(name), multiline) ELSE -1
    ELSE IF LetterAt(text, k) = Head(name) THEN NameEnd(text, k + 1, Tail(name), multiline)
    ELSE -1

\* [^}]*named[^}]* on the text between two braces, without the m flag
NamedWithin(inner, named) == \E k \in 0..Len(inner) : NameEnd(inner, k, named, FALSE) # -1

ImportStatement(named, from) ==
    <<"import", " ", "{", " ">> \o named \o <<" ", "}", " ", "from", " ", "'">> \o from \o <<"'">>

\* existingImports ? `${existingImports.trim()}, ${named}` : named
UpdatedImports(existingImports, named) ==
    IF existingImports # <<>> THEN Trim(existingImports) \o <<",", " ">> \o named ELSE named

\* content.slice(0, insertPosition) + "\nimport { named } from 'from';" + content.slice(insertPosition)
InsertImportAt(content, insertPosition, named, from) ==
    Slice(content, 0, insertPosition) \o <<"LF">> \o ImportStatement(named, from) \o <<";">>
    \o Slice(content, insertPosition, Len(content))

\* addImportStub from the outcome of its three matches: importRegex.test,
\* existingImportRegex.exec and content.match(allImportsRegex)
AddImportMatched(content, named, from, exists, match, lastImport) ==
    IF exists THEN content
    ELSE IF match.ok
         THEN ReplaceFirst(content, Slice(content, match.start, match.end),
                           ImportStatement(UpdatedImports(match.inner, named), from))
    ELSE IF lastImport.ok
         THEN InsertImportAt(content, LastIndexOf(content, lastImport.val) + Len(lastImport.val), named, from)
    ELSE ImportStatement(named, from) \o <<";", "LF">> \o content

AddImportStub(content, named, from) ==
    AddImportMatched(content, named, from,
                     \E i \in ImportStarts(content) : /\ ImportMatchAt(content, i).mod = from
                                                      /\ NamedWithin(ImportMatchAt(content, i).inner, named),
                     ImportMatchAt(content, Least({i \in ImportStarts(content) : ImportMatchAt(content, i).mod = from})),
                     LastImportStatement(content, 0))

----------------------------------------------------------------------------
(* anchors.ts: ensureImport *)

\* \s+ :
WsPlus(s, i) == IF i # -1 /\ Ws(s, i) > i THEN Ws(s, i) ELSE -1

\* \w+ :
WordRun(s, i) ==
    IF i = -1 \/ ~IsWordToken(LetterAt(s, i)) THEN -1 ELSE Least({j \in i..Len(s) : ~IsWordToken(LetterAt(s, j))})

\* The letters of p, one after the other
Letters(s, i, p) == IF i # -1 /\ MatchAt(s, p, i) THEN i + Len(p) ELSE -1

\* \s+from\s+['"]${from}['"] :
FromModule(s, i, from) == Lit(s, Letters(s, Lit(s, WsPlus(s, Lit(s, WsPlus(s, i), {"from"})), Quotes), from), Quotes)

\* [^}]*\b${named}\b[^}]* on the text between two braces, with the m flag
NamedWordWithin(inner, named) ==
    \E k \in 0..Len(inner) : /\ NameEnd(inner, k, named, TRUE) # -1
                             /\ WordBoundary(inner, k)
                             /\ WordBoundary(inner, NameEnd(inner, k, named, TRUE))

\* import\s+ and the opening brace, and up to the closing brace
BraceOpen(s, i) == Lit(s, WsPlus(s, Lit(s, i, {"import"})), {"{"})

BraceClose(s, i) == Until(s, BraceOpen(s, i), {"}"})

\* The three alternatives of importRegex at index i: the named import, the
\* namespace import and the default import
NamedImportAt(s, i, named, from) ==
    /\ FromModule(s, BraceClose(s, i), from) # -1
    /\ NamedWordWithin(Slice(s, BraceOpen(s, i), BraceClose(s, i) - 1), named)

NamespaceImportAt(s, i, from) ==
    FromModule(s, WordRun(s, WsPlus(s, Lit(s, WsPlus(s, Lit(s, WsPlus(s, Lit(s, i, {"import"})), {"*"})), {"as"}))), from) # -1

DefaultImportAt(s, i, from) == FromModule(s, WordRun(s, WsPlus(s, Lit(s, i, {"import"}))), from) # -1

\* importRegex.test(content)
ImportRegexTest(content, named, from) ==
    \E i \in 0..(Len(content) - 1) :
        NamedImportAt(content, i, named, from) \/ NamespaceImportAt(content, i, from) \/ DefaultImportAt(content, i, from)

\* existingImportRegex.exec(content): the index of the first match, or -1
ExistingImportIndex(content, from) ==
    Least({i \in 0..(Len(content) - 1) : FromModule(content, BraceClose(content, i), from) # -1})

\* content.slice(0, index) + importStatement.replace("}", `, ${named}}`) + content.slice(index + length)
AddToExistingImport(content, index, end, named) ==
    Slice(content, 0, index)
    \o ReplaceFirst(Slice(content, index, end), <<"}">>, <<",", " ">> \o named \o <<"}">>)
    \o Slice(content, end, Len(content))

\* from\s+['"][^'"]*['"];?\s* at index k: the index after the match, or -1
Semicolon(s, i) == IF i # -1 /\ LetterAt(s, i) = ";" THEN i + 1 ELSE i

FromAnyModule(s, k) == Ws(s, Semicolon(s, Until(s, Lit(s, WsPlus(s, Lit(s, k, {"from"})), Quotes), Quotes)))

\* import\s+.*?from... at index i: .*? takes as few letters of the line as it can
AnyImportEnd(s, i) ==
    FromAnyModule(s, Least({k \in 0..Len(s) : /\ WsPlus(s, Lit(s, i, {"import"})) # -1
                                               /\ k >= WsPlus(s, Lit(s, i, {"import"}))
                                               /\ \A j \in WsPlus(s, Lit(s, i, {"import"}))..(k - 1) : LetterAt(s, j) # "LF"
                                               /\ FromAnyModule(s, k) # -1}))

\* The first match of allImportsRegex at or after index start, or -1
NextImportIndex(s, start) == Least({i \in start..(Len(s) - 1) : AnyImportEnd(s, i) # -1})

\* The while loop over allImportsRegex.exec: the end of the last match, or -1
RECURSIVE LastImportEnd(_, _)
LastImportEnd(s, start) ==
    IF NextImportIndex(s, start) = -1 THEN -1
    ELSE IF LastImportEnd(s, AnyImportEnd(s, NextImportIndex(s, start))) # -1
         THEN LastImportEnd(s, AnyImportEnd(s, NextImportIndex(s, start)))
    ELSE AnyImportEnd(s, NextImportIndex(s, start))

\* `\nimport { ${named} } from '${from}';`
NewImport(named, from) == <<"LF">> \o ImportStatement(named, from) \o <<";">>

\* trimmedLine.startsWith("//") || trimmedLine.startsWith("/*") || trimmedLine === ""
IsCommentOrBlank(line) == StartsWith(Trim(line), <<"//">>) \/ StartsWith(Trim(line), <<"/*">>) \/ Trim(line) = <<>>

\* The while loop over the file-level comments
RECURSIVE SkipComments(_, _)
SkipComments(lines, insertLine) ==
    IF insertLine < Len(lines) /\ IsCommentOrBlank(lines[insertLine + 1]) THEN SkipComments(lines, insertLine + 1)
    ELSE insertLine

\* The line after the shebang and the file-level comments
InsertLine(lines) == SkipComments(lines, IF StartsWith(lines[1], <<"#!">>) THEN 1 ELSE 0)

\* lines.slice(0, insertLine).join("\n").length
TopInsertPos(lines) == Len(Join(SubSeq(lines, 1, InsertLine(lines)), <<"LF">>))

EnsureImport(content, named, from) ==
    IF content = <<>> \/ named = <<>> \/ from = <<>> THEN content
    ELSE IF ImportRegexTest(content, named, from) THEN content
    ELSE IF ExistingImportIndex(content, from) # -1
         THEN AddToExistingImport(content, ExistingImportIndex(content, from),
                                  FromModule(content, BraceClose(content, ExistingImportIndex(content, from)), from),
                                  named)
    ELSE IF LastImportEnd(content, 0) # -1
         THEN InsertAt(content, LastImportEnd(content, 0), NewImport(named, from))
    ELSE InsertAt(content, TopInsertPos(Split(content, <<"LF">>)), NewImport(named, from))

----------------------------------------------------------------------------
(* ast.ts: insertUseEffectStub, insertJSXInToolbarStub and applyAstPatch *)

\* useEffect\(\s*\(\)\s*=>\s*{([^}]*)}\s*,\s*\[[^\]]*\]\s*\) matched at index i:
\* the index after the match, or -1
UseEffectArrow(s, i) == Lit(s, Ws(s, Lit(s, Lit(s, Ws(s, Lit(s, Lit(s, i, {"useEffect"}), {"("})), {"("}), {")"})), {"=>"})

UseEffectBody(s, i) == Until(s, Lit(s, Ws(s, UseEffectArrow(s, i)), {"{"}), {"}"})

UseEffectDeps(s, i) == Until(s, Lit(s, Ws(s, Lit(s, Ws(s, UseEffectBody(s, i)), {","})), {"["}), {"]"})

UseEffectMatchEnd(s, i) == Lit(s, Ws(s, UseEffectDeps(s, i)), {")"})

UseEffectBlock(indent, effectCode) ==
    <<"useEffect", "(", "(", ")", " ", "=>", " ", "{", "LF">> \o indent \o <<" ", " ">> \o effectCode
    \o <<"LF">> \o indent \o <<"}", ",", " ", "[", "]", ")", ";">>

\* effectCode.substring(0, 20)
Substring20(s) == Slice(s, 0, IF Len(s) < 20 THEN Len(s) ELSE 20)

\* Contents of the model hold no function or arrow-function heading (the letters
\* "function" and "const" are not in the alphabet), so componentRegex never
\* matches and the stub takes its append fallback.
InsertUseEffectStub(content, effectCode) ==
    IF \E i \in 0..(Len(content) - 1) :
          /\ UseEffectMatchEnd(content, i) # -1
          /\ Includes(Slice(content, i, UseEffectMatchEnd(content, i)), Substring20(effectCode))
    THEN content
    ELSE content \o <<"LF", "LF">> \o UseEffectBlock(<<>>, effectCode)

\* Contents of the model hold no <Toolbar>, toolbar <div>, <header> or return (...)
\* (their letters are not in the alphabet): the stub takes its last resort.
InsertJSXInToolbarStub(content, jsxElement) == content \o <<"LF", "LF">> \o jsxElement

NoParams == [ok |-> FALSE, named |-> <<>>, from |-> <<>>]

\* parseImportParams from the match of the import pattern in op.content and
\* the parts of the selector: "addImport:named:from"
ImportParamsFrom(opContent, importMatch, parts) ==
    IF opContent # <<>> /\ importMatch.ok
    THEN [ok |-> TRUE, named |-> Trim(importMatch.inner), from |-> Trim(importMatch.mod)]
    ELSE IF Len(parts) >= 3 /\ parts[1] = <<"addImport">> /\ parts[2] # <<>> /\ parts[3] # <<>>
         THEN [ok |-> TRUE, named |-> parts[2], from |-> parts[3]]
    ELSE NoParams

\* import\s*{\s*([^}]+)\s*}\s*from\s*['"]([^'"]+)['"] : both groups are not empty
ParseImportParams(selector, opContent) ==
    ImportParamsFrom(opContent,
                     ImportMatchAt(opContent, Least({i \in ImportStarts(opContent) :
                                                       /\ ImportMatchAt(opContent, i).inner # <<>>
                                                       /\ ImportMatchAt(opContent, i).mod # <<>>})),
                     Split(selector, <<":">>))

\* if (importParams) return addImportStub(...); return null
AddImport(content, importParams) ==
    IF importParams.ok THEN Some(AddImportStub(content, importParams.named, importParams.from)) ELSE Null

ApplyAstPatch(content, op) ==
    IF StartsWith(op.selector, <<"addImport", ":">>)
    THEN AddImport(content, ParseImportParams(op.selector, op.content))
    ELSE IF StartsWith(op.selector, <<"insertUseEffect">>)
    THEN IF op.content # <<>> THEN Some(InsertUseEffectStub(content, op.content)) ELSE Null
    ELSE IF StartsWith(op.selector, <<"insertJSXInToolbar">>)
    THEN IF op.content # <<>> THEN Some(InsertJSXInToolbarStub(content, op.content)) ELSE Null
    ELSE Null

----------------------------------------------------------------------------
(* SmartPatcher.ts *)

\* crypto.createHash("sha256"): collision-free on the contents of the model
Sha256(content) == <<"sha256:">> \o content

NoHash == <<>>

ApplyStrict(content, op) ==
    IF op.search = op.replace THEN Some(content)
    ELSE IF ~Includes(content, op.search) THEN Null
    ELSE Some(ReplaceFirst(content, op.search, op.replace))

ApplyFuzzy(content, op) == ApplyAnchorPatch(content, op)

ApplyAst(content, op) == ApplyAstPatch(content, op)

\* What applyOperation returns, with the strategy functions it called
Applied(result, strategy, tried) == [result |-> result, strategy |-> strategy, tried |-> tried]

\* if (result !== null) return { result, strategy }; else the final return
Attempt(result, strategy, tried) ==
    IF result.ok THEN Applied(result, strategy, tried) ELSE Applied(Null, "strict", tried)

\* The search/replace operation as an anchor operation on the first letter of
\* its search text
AsAnchorOp(op) ==
    [op EXCEPT !.anchor = IF op.search = <<>> THEN <<>> ELSE <<Head(op.search)>>, !.insert = op.replace]

\* A strict attempt that failed is handed to the anchor matcher
Escalate(content, op, strict) ==
    IF strict.ok THEN Applied(strict, "strict", <<"strict">>)
    ELSE Attempt(ApplyFuzzy(content, AsAnchorOp(op)), "fuzzy", <<"strict", "fuzzy">>)

\* A dispatcher that escalates from the strict to the fuzzy strategy
ApplyOperationEscalating(content, op) ==
    IF op.type = "search_replace" THEN Escalate(content, op, ApplyStrict(content, op))
    ELSE IF op.type = "anchor" THEN Attempt(ApplyFuzzy(content, op), "fuzzy", <<"fuzzy">>)
    ELSE IF op.type = "ast" THEN Attempt(ApplyAst(content, op), "ast", <<"ast">>)
    ELSE Applied(Null, "strict", <<>>)

\* The three type tests exclude each other: one strategy function is called,
\* the one of the operation's type.
ApplyOperation(content, op) ==
    IF op.type = "search_replace" THEN Attempt(ApplyStrict(content, op), "strict", <<"strict">>)
    ELSE IF op.type = "anchor" THEN Attempt(ApplyFuzzy(content, op), "fuzzy", <<"fuzzy">>)
    ELSE IF op.type = "ast" THEN Attempt(ApplyAst(content, op), "ast", <<"ast">>)
    ELSE Applied(Null, "strict", <<>>)

\* paths.some((p) => resolvedPath.startsWith(p))
SomeStartsWith(resolvedPath, paths) == \E i \in 1..Len(paths) : StartsWith(resolvedPath, paths[i])

\* A check in which an allow entry is looked for before the deny entries
ResolvedAllowFirst(resolvedPath, scope) ==
    IF SomeStartsWith(resolvedPath, scope.allowPaths) THEN TRUE
    ELSE IF SomeStartsWith(resolvedPath, scope.denyPaths) THEN FALSE
    ELSE Len(scope.allowPaths) = 0

IsPathAllowedAllowFirst(filePath, scope) == ResolvedAllowFirst(PathResolve(filePath), scope)

\* A check made on the path as given, its ".." segments unresolved
IsPathAllowedUnresolved(filePath, scope) ==
    IF SomeStartsWith(Absolute(filePath), scope.denyPaths) THEN FALSE
    ELSE IF Len(scope.allowPaths) = 0 THEN TRUE
    ELSE SomeStartsWith(Absolute(filePath), scope.allowPaths)

\* The deny list first; then an empty allow list allows, else the allow list decides
ResolvedPathAllowed(resolvedPath, scope) ==
    IF SomeStartsWith(resolvedPath, scope.denyPaths) THEN FALSE
    ELSE IF Len(scope.allowPaths) = 0 THEN TRUE
    ELSE SomeStartsWith(resolvedPath, scope.allowPaths)

IsPathAllowed(filePath, scope) == ResolvedPathAllowed(PathResolve(filePath), scope)

IsOpAllowed(op, scope) ==
    IF Len(scope.allowOps) = 0 THEN TRUE
    ELSE \E i \in 1..Len(scope.allowOps) : scope.allowOps[i] = op.type

ClassifyOperation(op) ==
    IF Includes(op.filePath, <<"test">>) \/ Includes(op.filePath, <<"spec">>) THEN "test"
    ELSE IF Includes(op.filePath, <<"doc">>) \/ Includes(op.filePath, <<"readme">>) THEN "docs"
    ELSE IF Includes(op.filePath, <<"config">>) \/ Includes(op.filePath, <<"setting">>) THEN "config"
    ELSE "other"

\* result.originalHash === patchedHash
SameDigestNever(originalHash, patchedHash) == FALSE

SameDigest(originalHash, patchedHash) == originalHash = patchedHash

\* if (!dryRun) fs.writeFileSync(...)
ShouldWriteAlways(dry) == TRUE

ShouldWrite(dry) == ~dry

\* results.push(result); continue -- inside the try block, so that the finally
\* block pushes the same result once more before the loop continues
PushAndContinue(rs, r) == Append(Append(rs, r), r)

\* the end of the try block or the catch block: the finally block pushes once
PushInFinally(rs, r) == Append(rs, r)

\* for (const op of plan.ops): the operation after the i-th of n, whatever its
\* outcome and the envelope's options
LoopAdvanceHaltOnFailure(i, n, outcome, options) ==
    IF outcome = "failure" /\ ~options.continueOnError THEN n + 1 ELSE i + 1

LoopAdvance(i, n, outcome, options) == i + 1

\* File system: a function from absolute paths to entries
NoEntry == [kind |-> "none", content |-> <<>>]

FsEntry(fs, path) == IF path \in DOMAIN fs THEN fs[path] ELSE NoEntry

ExistsSync(fs, path) == FsEntry(fs, path).kind # "none"

MsgPathNotAllowed(op) == <<"File", " ", "path", " ">> \o op.filePath \o <<" ", "not", " ", "allowed", " ", "by", " ", "task", " ", "scope">>

MsgOpNotAllowed(op) == <<"Operation", " ", "type", " ", op.type, " ", "not", " ", "allowed", " ", "by", " ", "task", " ", "scope">>

MsgNotExist(op) == <<"File", " ">> \o op.filePath \o <<" ", "does", " ", "not", " ", "exist">>

MsgAllFailed(op) == <<"All", " ", "patch", " ", "strategies", " ", "failed", " ", "for", " ", "operation", " ">> \o op.id

MsgNoChanges(op) == <<"Operation", " ">> \o op.id \o <<" ", "resulted", " ", "in", " ", "no", " ", "changes">>

\* the message of the error fs.readFileSync throws on a directory
MsgEisdir == <<"EISDIR", ":", " ", "illegal", " ", "operation", " ", "on", " ", "a", " ", "directory", ",", " ", "read">>

\* let result = { opId, outcome: FAILURE, classification: classifyOperation(op) }
InitialResult(op) ==
    [opId |-> op.id, outcome |-> "failure", classification |-> ClassifyOperation(op),
     originalHash |-> NoHash, patchedHash |-> NoHash, error |-> <<>>]

\* The calls of node:fs an iteration makes, with the content read or written;
\* threw marks the call that raised an error
ExistsCall == [kind |-> "exists", content |-> <<>>, threw |-> FALSE]

ReadCall(content) == [kind |-> "read", content |-> content, threw |-> FALSE]

ReadThrows == [kind |-> "read", content |-> <<>>, threw |-> TRUE]

WriteCall(content) == [kind |-> "write", content |-> content, threw |-> FALSE]

\* A write that replaces the content of every file
WriteFileSyncEverywhere(fs, path, content) ==
    [q \in DOMAIN fs |-> IF fs[q].kind = "file" THEN [kind |-> "file", content |-> content] ELSE fs[q]]

WriteFileSync(fs, path, content) == [fs EXCEPT ![path] = [kind |-> "file", content |-> content]]

\* What one iteration of the loop leaves: the results array after the pushes of
\* result r, the file system, the file-system calls made and the strategy
\* functions called
Iteration(r, pushed, fs, calls, tried) ==
    [result |-> r, results |-> pushed, fs |-> fs, calls |-> calls, tried |-> tried]

\* results.push(result); continue
Continue(r, rs, fs, calls, tried) == Iteration(r, PushAndContinue(rs, r), fs, calls, tried)

\* The try block or the catch block ends; the finally block pushes the result
EndTry(r, rs, fs, calls, tried) == Iteration(r, PushInFinally(rs, r), fs, calls, tried)

\* The iteration from the hash comparison on: no change is skipped; else the
\* file is written unless the run is dry, and the operation succeeds
Finish(op, r, originalContent, patchedContent, fullPath, fs, dry, rs, tried) ==
    IF SameDigest(r.originalHash, r.patchedHash)
    THEN Continue([r EXCEPT !.outcome = "skipped", !.error = MsgNoChanges(op)], rs, fs,
                  <<ExistsCall, ReadCall(originalContent)>>, tried)
    ELSE IF ShouldWrite(dry)
    THEN EndTry([r EXCEPT !.outcome = "success"], rs, WriteFileSync(fs, fullPath, patchedContent),
                <<ExistsCall, ReadCall(originalContent), WriteCall(patchedContent)>>, tried)
    ELSE EndTry([r EXCEPT !.outcome = "success"], rs, fs, <<ExistsCall, ReadCall(originalContent)>>, tried)

\* The iteration from the return of applyOperation on
AfterApply(op, originalContent, applied, fullPath, fs, dry, rs) ==
    IF ~applied.result.ok
    THEN Continue([InitialResult(op) EXCEPT !.originalHash = Sha256(originalContent), !.error = MsgAllFailed(op)],
                  rs, fs, <<ExistsCall, ReadCall(originalContent)>>, applied.tried)
    ELSE Finish(op, [InitialResult(op) EXCEPT !.originalHash = Sha256(originalContent),
                                              !.patchedHash = Sha256(applied.result.val)],
                originalContent, applied.result.val, fullPath, fs, dry, rs, applied.tried)

\* The iteration from readFileSync on: on a directory it throws, the catch
\* block records the failure
ReadAndApply(op, entry, fullPath, fs, dry, rs) ==
    IF entry.kind = "dir"
    THEN EndTry([InitialResult(op) EXCEPT !.error = MsgEisdir], rs, fs, <<ExistsCall, ReadThrows>>, <<>>)
    ELSE AfterApply(op, entry.content, ApplyOperation(entry.content, op), fullPath, fs, dry, rs)

\* The iteration from existsSync on
FromExists(op, fullPath, fs, dry, rs) ==
    IF ~ExistsSync(fs, fullPath)
    THEN Continue([InitialResult(op) EXCEPT !.error = MsgNotExist(op)], rs, fs, <<ExistsCall>>, <<>>)
    ELSE ReadAndApply(op, FsEntry(fs, fullPath), fullPath, fs, dry, rs)

\* One iteration of the loop of runPlan on operation op
EvalOp(op, scope, fs, dry, rs) ==
    IF ~IsPathAllowed(op.filePath, scope)
    THEN Continue([InitialResult(op) EXCEPT !.outcome = "skipped", !.error = MsgPathNotAllowed(op)],
                  rs, fs, <<>>, <<>>)
    ELSE IF ~IsOpAllowed(op, scope)
    THEN Continue([InitialResult(op) EXCEPT !.outcome = "skipped", !.error = MsgOpNotAllowed(op)],
                  rs, fs, <<>>, <<>>)
    ELSE FromExists(op, PathResolve(op.filePath), fs, dry, rs)

CountOutcome(rs, o) == Cardinality({i \in 1..Len(rs) : rs[i].outcome = o})

Summary(rs) ==
    [total |-> Len(rs), successful |-> CountOutcome(rs, "success"), failed |-> CountOutcome(rs, "failure"),
     skipped |-> CountOutcome(rs, "skipped"), partial |-> CountOutcome(rs, "partial")]

OverallOutcomeNoSuccessFirst(summary) ==
    IF summary.successful = 0 THEN "failure"
    ELSE IF summary.failed = 0 THEN "success"
    ELSE "partial"

OverallOutcome(summary) ==
    IF summary.failed = 0 THEN "success"
    ELSE IF summary.successful = 0 THEN "failure"
    ELSE "partial"

\* The for loop of runPlan from the operation at index i on: the results
\* array and the file system when the loop ends
RECURSIVE RunLoop(_, _, _, _, _, _)
RunLoop(ops, i, scope, fs, dry, rs) ==
    IF i > Len(ops) THEN [results |-> rs, fs |-> fs]
    ELSE RunLoop(ops, i + 1, scope, EvalOp(ops[i], scope, fs, dry, rs).fs, dry, EvalOp(ops[i], scope, fs, dry, rs).results)

PlanResult(p, rs) ==
    [planId |-> p.id, outcome |-> OverallOutcome(Summary(rs)), results |-> rs, summary |-> Summary(rs)]

----------------------------------------------------------------------------
(* envelope.ts *)

AllowOpsDefault == <<"search_replace", "anchor">>

MaxRetriesDefault == 3

TimeBudgetSecDefault == 300

MaxRetriesCap == 5

TimeBudgetSecCap == 600

DefaultDenyPaths ==
    << <<"/", "etc", "/">>, <<"/", "usr", "/">>, <<"/", "bin", "/">>, <<"/", "sbin", "/">>,
       <<"/", "boot", "/">>, <<"/", "sys", "/">>, <<"/", "proc", "/">>, <<"/", "dev", "/">>,
       <<".env">>, <<".env", ".local">>, <<".env", ".production">>, <<"config", "/", "secrets">>,
       <<"secrets", "/">>,
       <<"package-lock.json">>, <<"yarn.lock">>, <<"pnpm-lock.yaml">>,
       <<"node_modules", "/">>, <<"dist", "/">>, <<"build", "/">>, <<"out", "/">>, <<".next", "/">>,
       <<".nuxt", "/">>, <<".cache", "/">>,
       <<".git", "/">>, <<".svn", "/">>, <<".hg", "/">>,
       <<".vs", "code", "/">>, <<".idea", "/">>, <<".vs", "/">>,
       <<".DS_Store">>, <<"Thumbs.db">>,
       <<"*", ".tmp">>, <<"*", ".temp">>, <<"*", ".swp">>, <<"*", ".swo">> >>

OptionKeys == {"continueOnError", "createBackups", "validateBeforeApply", "runLinting", "runTypeChecking"}

\* An options object: `has` holds the keys that are present.
DefaultOptions ==
    [has |-> OptionKeys, continueOnError |-> FALSE, createBackups |-> TRUE, validateBeforeApply |-> TRUE,
     runLinting |-> FALSE, runTypeChecking |-> FALSE]

DefaultConservativeEnvelope ==
    [id |-> <<"conservative-default">>,
     scope |-> [allowPaths |-> <<>>, denyPaths |-> DefaultDenyPaths, allowOps |-> AllowOpsDefault,
                maxRetries |-> MaxRetriesDefault, timeBudgetSec |-> TimeBudgetSecDefault],
     options |-> DefaultOptions]

\* A Partial<TaskScope>: `has` holds the keys that are present; undefined
\* customConstraints are the object without keys.
NoConstraints ==
    [has |-> {}, allowPaths |-> <<>>, denyPaths |-> <<>>, allowOps |-> <<>>, maxRetries |-> 0, timeBudgetSec |-> 0]

\* A hardening without the caps
MinUncapped(a, b) == a

Min(a, b) == IF a < b THEN a ELSE b

MapSeq(Op(_), s) == [i \in 1..Len(s) |-> Op(s[i])]

\* path => absolute, with a trailing slash
WithTrailingSlash(resolved) == IF EndsWith(resolved, <<"/">>) THEN resolved ELSE resolved \o <<"/">>

NormalizeEntry(path) == WithTrailingSlash(Absolute(path))

\* x || d on a number: 0 is falsy
OrDefault(present, x, d) == IF present /\ x # 0 THEN x ELSE d

\* A hardening in which the spread of the custom constraints comes last and
\* replaces the deny list
ApplySecurityConstraintsCustomLast(env, custom) ==
    LET denyPaths == IF "denyPaths" \in custom.has THEN custom.denyPaths
                     ELSE DefaultDenyPaths
        allowPaths == IF "allowPaths" \in custom.has THEN custom.allowPaths ELSE <<>>
    IN  [id |-> env.id,
         scope |-> [allowPaths |-> MapSeq(NormalizeEntry, IF Len(allowPaths) = 0 THEN <<ProcessCwd \o <<"/">>>> ELSE allowPaths),
                    denyPaths |-> MapSeq(NormalizeEntry, denyPaths),
                    allowOps |-> IF "allowOps" \in custom.has THEN custom.allowOps ELSE AllowOpsDefault,
                    maxRetries |-> Min(OrDefault("maxRetries" \in custom.has, custom.maxRetries, MaxRetriesDefault), MaxRetriesCap),
                    timeBudgetSec |-> Min(OrDefault("timeBudgetSec" \in custom.has, custom.timeBudgetSec, TimeBudgetSecDefault), TimeBudgetSecCap)],
         options |-> env.options]

\* The scope is built from the defaults and the custom constraints alone; of
\* the envelope passed in, the id and the options are kept.
ApplySecurityConstraints(env, custom) ==
    LET denyPaths == DefaultDenyPaths \o (IF "denyPaths" \in custom.has THEN custom.denyPaths ELSE <<>>)
        allowPaths == IF "allowPaths" \in custom.has THEN custom.allowPaths ELSE <<>>
        Opt(k) == IF k \in env.options.has THEN env.options[k] ELSE DefaultOptions[k]
    IN  [id |-> env.id,
         scope |-> [allowPaths |-> MapSeq(NormalizeEntry, IF Len(allowPaths) = 0 THEN <<ProcessCwd \o <<"/">>>> ELSE allowPaths),
                    denyPaths |-> MapSeq(NormalizeEntry, denyPaths),
                    allowOps |-> IF "allowOps" \in custom.has THEN custom.allowOps ELSE AllowOpsDefault,
                    maxRetries |-> Min(OrDefault("maxRetries" \in custom.has, custom.maxRetries, MaxRetriesDefault), MaxRetriesCap),
                    timeBudgetSec |-> Min(OrDefault("timeBudgetSec" \in custom.has, custom.timeBudgetSec, TimeBudgetSecDefault), TimeBudgetSecCap)],
         options |-> [has |-> OptionKeys, continueOnError |-> Opt("continueOnError"), createBackups |-> TRUE,
                      validateBeforeApply |-> TRUE, runLinting |-> Opt("runLinting"),
                      runTypeChecking |-> Opt("runTypeChecking")]]

CreateConservativeEnvelope(planId, custom) ==
    ApplySecurityConstraints([DefaultConservativeEnvelope EXCEPT !.id = <<"conservative-">> \o planId], custom)

----------------------------------------------------------------------------
(* Inputs of the model *)

MaxOps == 2

MaxPatterns == 1

OpBase ==
    [id |-> <<>>, type |-> "search_replace", filePath |-> <<>>, search |-> <<>>, replace |-> <<>>,
     anchor |-> <<>>, insert |-> <<>>, position |-> "after", hasOffset |-> FALSE, offset |-> 0,
     selector |-> <<>>, operation |-> "replace", content |-> <<>>]

SearchReplaceOp(file, search, replace) ==
    [OpBase EXCEPT !.type = "search_replace", !.filePath = file, !.search = search, !.replace = replace]

AnchorOp(file, anchor, insert, position, hasOffset, offset) ==
    [OpBase EXCEPT !.type = "anchor", !.filePath = file, !.anchor = anchor, !.insert = insert,
                   !.position = position, !.hasOffset = hasOffset, !.offset = offset]

AstOp(file, selector, operation, content) ==
    [OpBase EXCEPT !.type = "ast", !.filePath = file, !.selector = selector, !.operation = operation,
                   !.content = content]

FileA == <<"a">>

\* Operations on the ordinary file a of the working directory
OpsOnA ==
    { SearchReplaceOp(FileA, <<"x">>, <<"y">>),
      SearchReplaceOp(FileA, <<"y">>, <<"z">>),
      SearchReplaceOp(FileA, <<"x", "q">>, <<"y">>),
      SearchReplaceOp(FileA, <<"x">>, <<"x">>),
      AnchorOp(FileA, <<"x">>, <<"c">>, "after", FALSE, 0),
      AnchorOp(FileA, <<"q">>, <<"c">>, "before", TRUE, 0),
      AstOp(FileA, <<"addImport", ":", "n", ":", "m">>, "insert_before", <<>>) }

\* The same replacement aimed at files named on the conservative deny list, at
\* a file outside the working directory, at a missing file and at a directory
SpecialPaths ==
    { <<".env">>, <<"package-lock.json">>, <<"a", ".tmp">>, <<"node_modules", "/", "m">>,
      <<"/", "etc", "/", "passwd">>, <<"missing">>, <<"d">> }

OpTemplates == OpsOnA \cup {SearchReplaceOp(f, <<"x">>, <<"y">>) : f \in SpecialPaths}

Digits == <<"1", "2", "3", "4", "5", "6", "7", "8", "9">>

OpId(i) == <<"op", Digits[i]>>

PlanId == <<"plan">>

\* Plans: up to MaxOps operations, their ids unique within the plan
Plans ==
    { [id |-> PlanId, ops |-> [i \in DOMAIN ts |-> [ts[i] EXCEPT !.id = OpId(i)]]] :
        ts \in UNION {[1..n -> OpTemplates] : n \in 0..MaxOps} }

\* The file a starts with an import of n from m, followed by the text x
ContentsOfA ==
    { <<"import", "{", "n", "}", "from", "'", "m", "'", ";", "x">> }

File(content) == [kind |-> "file", content |-> content]

InitialFileSystems ==
    { [p \in {PathResolve(f) : f \in SpecialPaths \cup {FileA}} |->
         IF p = PathResolve(FileA) THEN File(c)
         ELSE IF p = PathResolve(<<"missing">>) THEN NoEntry
         ELSE IF p = PathResolve(<<"d">>) THEN [kind |-> "dir", content |-> <<>>]
         ELSE File(<<"x">>)] : c \in ContentsOfA }

AllOps == <<"search_replace", "anchor", "ast">>

Scope(allowPaths, denyPaths, allowOps) ==
    [allowPaths |-> allowPaths, denyPaths |-> denyPaths, allowOps |-> allowOps,
     maxRetries |-> MaxRetriesDefault, timeBudgetSec |-> 60]

Envelope(id, scope, options) == [id |-> id, scope |-> scope, options |-> options]

NoEnvelope == Envelope(<<>>, Scope(<<>>, <<>>, <<>>), DefaultOptions)

\* Envelopes handed to runPlan by a caller of the engine: an empty scope, a
\* scope whose deny entry lies under its allow entry, and a scope hardened by
\* createConservativeEnvelope with every operation type allowed
DirectEnvelopes ==
    { Envelope(<<"open">>, Scope(<<>>, <<>>, <<>>), DefaultOptions),
      Envelope(<<"overlap">>, Scope(<< <<"/", "w", "/">> >>, << <<"/", "w", "/", "a">> >>, AllOps),
               [DefaultOptions EXCEPT !.continueOnError = TRUE]),
      CreateConservativeEnvelope(PlanId, [NoConstraints EXCEPT !.has = {"allowOps"}, !.allowOps = AllOps]) }

\* Envelopes sent in the body of POST /v1/patch: the caller denies the working
\* directory and asks for continueOnError
CallerEnvelopes ==
    { Envelope(<<"caller">>, Scope(<<>>, << ProcessCwd \o <<"/">> >>, <<>>),
               [DefaultOptions EXCEPT !.has = {"continueOnError"}, !.continueOnError = TRUE]) }

\* Request bodies: without a plan, with a plan without id, and well-formed ones
Bodies ==
    { [hasPlan |-> FALSE, plan |-> [id |-> <<>>, ops |-> <<>>], hasEnvelope |-> FALSE, envelope |-> NoEnvelope,
       dryRun |-> FALSE],
      [hasPlan |-> TRUE, plan |-> [id |-> <<>>, ops |-> <<>>], hasEnvelope |-> FALSE, envelope |-> NoEnvelope,
       dryRun |-> FALSE] }
    \cup { [hasPlan |-> TRUE, plan |-> p, hasEnvelope |-> FALSE, envelope |-> NoEnvelope, dryRun |-> d] :
             p \in Plans, d \in BOOLEAN }
    \cup { [hasPlan |-> TRUE, plan |-> p, hasEnvelope |-> TRUE, envelope |-> e, dryRun |-> d] :
             p \in Plans, e \in CallerEnvelopes, d \in BOOLEAN }

----------------------------------------------------------------------------
(* The state machine *)

\* let config = null
NoConfig == [set |-> FALSE]

\* DEFAULT_REGISTRY: its two arrays are created once, when the module is loaded
EmptyArrays == [observations |-> <<>>, suggestedOps |-> <<>>]

\* The registry a caller holds: each of its two arrays is DEFAULT_REGISTRY's
\* array (shared) or an array of its own.  At first no registry is held.
NoRegistry == [held |-> FALSE, obsShared |-> FALSE, observations |-> <<>>, sugShared |-> FALSE, suggestedOps |-> <<>>]

MissingFile == [kind |-> "missing"]

\* The observations merged and the number of addSuggestedOp calls since the
\* caller last built a registry (since the process started, if it never did);
\* valid is TRUE while the registry held was built empty and is untrimmed
NoMergeLog == [valid |-> FALSE, merged |-> <<>>, added |-> 0]

\* The service state when the process starts, without a registry file
\* The processes of the command-line tool that run side by side
Updaters == {1, 2}

\* A process that has not run its plan yet
NewProcess ==
    [pc |-> "start", plan |-> [id |-> <<>>, ops |-> <<>>], results |-> <<>>, now |-> 0,
     read |-> EmptyArrays, registry |-> EmptyArrays, wrote |-> FALSE]

ServiceInit ==
    /\ config = NoConfig
    /\ defaultRegistry = EmptyArrays
    /\ registry = NoRegistry
    /\ registryFile = MissingFile
    /\ mergeLog = NoMergeLog
    /\ updaters = [u \in Updaters |-> NewProcess]

NoPlan == [id |-> <<>>, ops |-> <<>>]

Init ==
    /\ pc = "idle"
    /\ files \in InitialFileSystems
    /\ files0 = files
    /\ plan = NoPlan
    /\ envelope = NoEnvelope
    /\ reqEnvelope = [present |-> FALSE, envelope |-> NoEnvelope]
    /\ dryRun = FALSE
    /\ idx = 1
    /\ results = <<>>
    /\ fsLog = <<>>
    /\ stratLog = <<>>
    /\ response = [status |-> 0]
    /\ call = [fn |-> "none"]
    /\ ServiceInit

\* A caller of the engine calls SmartPatcher.runPlan(plan, envelope, dryRun).
RunPlanCall ==
    /\ pc = "idle"
    /\ \E p \in Plans, e \in DirectEnvelopes, d \in BOOLEAN :
          /\ plan' = p
          /\ envelope' = e
          /\ dryRun' = d
    /\ pc' = "running"
    /\ call' = [fn |-> "runPlan"]
    /\ UNCHANGED <<files, files0, reqEnvelope, idx, results, fsLog, stratLog, response>>
    /\ UNCHANGED serviceVars

\* POST /v1/patch up to the call of runPlan: 400 on a malformed plan, else the
\* envelope is hardened (or the conservative one is created) and the plan run.
HandlePatchRequest ==
    /\ pc = "idle"
    /\ \E body \in Bodies :
          IF ~body.hasPlan \/ body.plan.id = <<>>
          THEN /\ response' = [status |-> 400]
               /\ pc' = "done"
               /\ UNCHANGED <<plan, envelope, reqEnvelope, dryRun>>
          ELSE /\ plan' = body.plan
               /\ reqEnvelope' = [present |-> body.hasEnvelope, envelope |-> body.envelope]
               /\ envelope' = IF body.hasEnvelope THEN ApplySecurityConstraints(body.envelope, NoConstraints)
                              ELSE CreateConservativeEnvelope(body.plan.id, NoConstraints)
               /\ dryRun' = (body.dryRun = TRUE)
               /\ pc' = "running"
               /\ UNCHANGED response
    /\ call' = [fn |-> "handlePatchRequest"]
    /\ UNCHANGED <<files, files0, idx, results, fsLog, stratLog>>
    /\ UNCHANGED serviceVars

\* The effect of one iteration on the state; fsLog and stratLog record the
\* file-system calls and the strategy functions called, per operation
Iterate(e) ==
    /\ results' = e.results
    /\ files' = e.fs
    /\ fsLog' = fsLog \o [i \in 1..Len(e.calls) |->
                            [op |-> idx, kind |-> e.calls[i].kind, content |-> e.calls[i].content,
                             threw |-> e.calls[i].threw,
                             path |-> PathResolve(plan.ops[idx].filePath)]]
    /\ stratLog' = Append(stratLog, [op |-> idx, tried |-> e.tried])
    /\ idx' = LoopAdvance(idx, Len(plan.ops), e.result.outcome, envelope.options)

\* One iteration of the loop of runPlan.
RunOp ==
    /\ pc = "running"
    /\ idx <= Len(plan.ops)
    /\ Iterate(EvalOp(plan.ops[idx], envelope.scope, files, dryRun, results))
    /\ UNCHANGED <<pc, files0, plan, envelope, reqEnvelope, dryRun, response, call>>
    /\ UNCHANGED serviceVars

\* The loop is over: runPlan returns the plan result; the route responds with
\* the result, the envelope used and the dry-run flag.
ReturnResult ==
    /\ pc = "running"
    /\ idx > Len(plan.ops)
    /\ response' = [status |-> IF call.fn = "handlePatchRequest" THEN 200 ELSE 0,
                    result |-> PlanResult(plan, results), envelope |-> envelope, dryRun |-> dryRun]
    /\ pc' = "done"
    /\ UNCHANGED <<files, files0, plan, envelope, reqEnvelope, dryRun, idx, results, fsLog, stratLog, call>>
    /\ UNCHANGED serviceVars

\* Inputs of validateFilePath
GlobPaths ==
    { <<"src", "/", "app", ".js">>, <<"src", "/", "secret", "/", "key", ".txt">>, <<"docs", "/", "readme", ".md">> }

GlobPatterns ==
    { <<"src", "/", "*", "*">>, <<"src", "/", "secret", "/", "*", "*">>, <<"*">>, <<"*", ".js">>,
      <<"src", "/", "*">>, <<"docs", "/", "*", ".md">>, <<"*", "*", "/", "key", ".txt">>,
      <<"src", "/", "app", ".js">>, <<"*", "*", "*">> }

PatternLists == UNION {[1..n -> GlobPatterns] : n \in 0..MaxPatterns}

ValidateFilePathCall ==
    /\ pc = "idle"
    /\ \E f \in GlobPaths, allow \in PatternLists, deny \in PatternLists :
          call' = [fn |-> "validateFilePath", filePath |-> f, allowPaths |-> allow, denyPaths |-> deny,
                   result |-> ValidateFilePath(f, allow, deny)]
    /\ pc' = "done"
    /\ UNCHANGED <<files, files0, plan, envelope, reqEnvelope, dryRun, idx, results, fsLog, stratLog, response>>
    /\ UNCHANGED serviceVars

\* Inputs of applySecurityConstraints and createConservativeEnvelope
CustomDenyLists == { <<>>, << <<"a">> >>, << <<"/", "x", "/">>, <<"src">> >> }

CustomConstraints ==
    { NoConstraints }
    \cup { [NoConstraints EXCEPT !.has = {"denyPaths"} \cup more, !.denyPaths = deny, !.allowPaths = allow,
                                 !.allowOps = ops, !.maxRetries = n, !.timeBudgetSec = n * 100] :
             deny \in CustomDenyLists, allow \in {<<>>, << <<"src">> >>}, ops \in {<<>>, AllOps},
             n \in {-1, 0, 9}, more \in {{}, {"allowPaths", "allowOps", "maxRetries", "timeBudgetSec"}} }

ApplySecurityConstraintsCall ==
    /\ pc = "idle"
    /\ \E e \in CallerEnvelopes \cup {DefaultConservativeEnvelope}, c \in CustomConstraints :
          call' = [fn |-> "applySecurityConstraints", envelope |-> e, custom |-> c,
                   result |-> ApplySecurityConstraints(e, c)]
    /\ pc' = "done"
    /\ UNCHANGED <<files, files0, plan, envelope, reqEnvelope, dryRun, idx, results, fsLog, stratLog, response>>
    /\ UNCHANGED serviceVars

CreateConservativeEnvelopeCall ==
    /\ pc = "idle"
    /\ \E c \in CustomConstraints :
          call' = [fn |-> "createConservativeEnvelope", envelope |-> DefaultConservativeEnvelope, custom |-> c,
                   result |-> CreateConservativeEnvelope(PlanId, c)]
    /\ pc' = "done"
    /\ UNCHANGED <<files, files0, plan, envelope, reqEnvelope, dryRun, idx, results, fsLog, stratLog, response>>
    /\ UNCHANGED serviceVars

Next ==
    \/ RunPlanCall
    \/ HandlePatchRequest
    \/ RunOp
    \/ ReturnResult
    \/ ValidateFilePathCall
    \/ ApplySecurityConstraintsCall
    \/ CreateConservativeEnvelopeCall

Spec == Init /\ [][Next]_vars

----------------------------------------------------------------------------
(* Vocabulary of the properties *)

Range(seq) == {seq[k] : k \in DOMAIN seq}

\* A plan is being run or has been run (by runPlan directly or by the route)
InRun == pc \in {"running", "done"} /\ call.fn \in {"runPlan", "handlePatchRequest"} /\ response.status # 400

\* runPlan has returned its result
Returned == pc = "done" /\ InRun

\* The operations the loop has gone through
Processed == IF InRun THEN 1..(idx - 1) ELSE {}

\* The results recorded for the i-th operation of the plan
ResultsOf(i) == {r \in Range(results) : r.opId = plan.ops[i].id}

Recorded(i, outcome) == ResultsOf(i) # {} /\ \A r \in ResultsOf(i) : r.outcome = outcome

\* The file-system calls made for the i-th operation
FsCallsOf(i) == {c \in Range(fsLog) : c.op = i}

Wrote(i) == \E c \in FsCallsOf(i) : c.kind = "write"

HasRead(i) == \E c \in FsCallsOf(i) : c.kind = "read" /\ ~c.threw

\* The content readFileSync returned for the i-th operation
ReadContent(i) == (CHOOSE c \in FsCallsOf(i) : c.kind = "read").content

----------------------------------------------------------------------------
(* C1 *)

DeniedAndAllowed(i) ==
    /\ SomeStartsWith(PathResolve(plan.ops[i].filePath), envelope.scope.denyPaths)
    /\ SomeStartsWith(PathResolve(plan.ops[i].filePath), envelope.scope.allowPaths)

\* C1: deny overrides allow.  validateFilePath returns false for every path
\* that matches a deny pattern and an allow pattern, and runPlan records every
\* operation whose resolved path lies under a deny entry and under an allow
\* entry of the scope as skipped, with no file-system call made for it.
DenyOverridesAllow ==
    /\ call.fn = "validateFilePath"
         => ((/\ \E k \in DOMAIN call.denyPaths : MatchesPattern(call.filePath, call.denyPaths[k])
              /\ \E k \in DOMAIN call.allowPaths : MatchesPattern(call.filePath, call.allowPaths[k]))
             => call.result = FALSE)
    /\ \A i \in Processed : DeniedAndAllowed(i) => Recorded(i, "skipped") /\ FsCallsOf(i) = {}

\* C1 witness: a run has gone through an operation on a file that the scope
\* both denies and allows.
DenyOverridesAllowWitness == Returned /\ \E i \in Processed : DeniedAndAllowed(i)

----------------------------------------------------------------------------
(* C2 *)

\* The strategy of the i-th operation returned content with the digest of the
\* content read
SameDigestReturned(i) ==
    /\ HasRead(i)
    /\ ApplyOperation(ReadContent(i), plan.ops[i]).result.ok
    /\ Sha256(ApplyOperation(ReadContent(i), plan.ops[i]).result.val) = Sha256(ReadContent(i))

\* C2: every operation whose strategy returns content with the digest of the
\* original content is recorded as skipped, never as success, and its file is
\* not written, whichever strategy produced the content.
SameDigestIsSkipped == \A i \in Processed : SameDigestReturned(i) => Recorded(i, "skipped") /\ ~Wrote(i)

\* C2 witness: one run in which the strict strategy and the AST strategy each
\* returned the content unchanged.
SameDigestIsSkippedWitness ==
    /\ Returned
    /\ \E i \in Processed : plan.ops[i].type = "search_replace" /\ SameDigestReturned(i)
    /\ \E i \in Processed : plan.ops[i].type = "ast" /\ SameDigestReturned(i)

----------------------------------------------------------------------------
(* C3 *)

NoFailure == \A r \in Range(response.result.results) : r.outcome # "failure"

NoSuccess == \A r \in Range(response.result.results) : r.outcome # "success"

\* C3 as stated: the aggregate outcome is success iff no result is a failure,
\* failure iff no result is a success, and partial in every other case.
AggregateOutcomeAsStated ==
    Returned => /\ response.result.outcome = "success" <=> NoFailure
                /\ response.result.outcome = "failure" <=> NoSuccess
                /\ response.result.outcome = "partial" <=> (~NoFailure /\ ~NoSuccess)

\* C3 amended: the aggregate outcome is success iff no result is a failure,
\* failure iff some result is a failure and none is a success, and partial iff
\* some result is a failure and some result is a success.
AggregateOutcome ==
    Returned => /\ response.result.outcome = "success" <=> NoFailure
                /\ response.result.outcome = "failure" <=> (~NoFailure /\ NoSuccess)
                /\ response.result.outcome = "partial" <=> (~NoFailure /\ ~NoSuccess)

\* C3 witness: a plan with operations, all of them skipped, has returned.
AggregateOutcomeWitness ==
    /\ Returned
    /\ plan.ops # <<>>
    /\ \A i \in DOMAIN plan.ops : Recorded(i, "skipped")

----------------------------------------------------------------------------
(* C4 *)

\* A plan of one search-replace operation whose search text is its replace
\* text, on an existing file that the scope allows
SingleNoOpPlan ==
    /\ Len(plan.ops) = 1
    /\ plan.ops[1].type = "search_replace"
    /\ plan.ops[1].search = plan.ops[1].replace
    /\ IsPathAllowed(plan.ops[1].filePath, envelope.scope)
    /\ IsOpAllowed(plan.ops[1], envelope.scope)
    /\ FsEntry(files0, PathResolve(plan.ops[1].filePath)).kind = "file"

\* C4 as stated: such a plan produces a result with outcome skipped and
\* classification already_applied.
NoOpIsAlreadyApplied ==
    (Returned /\ SingleNoOpPlan)
        => \A r \in Range(response.result.results) : r.outcome = "skipped" /\ r.classification = "already_applied"

----------------------------------------------------------------------------
(* C5 *)

\* C5: in a dry run no file is written -- every file keeps the content it had
\* before the call -- while each operation gets the result that its evaluation
\* (scope checks, strategy, hash comparison) on those contents gives in a real run.
DryRunWritesNothing ==
    (InRun /\ dryRun)
        => /\ files = files0
           /\ \A c \in Range(fsLog) : c.kind # "write"
           /\ \A i \in Processed : ResultsOf(i) = {EvalOp(plan.ops[i], envelope.scope, files0, FALSE, <<>>).result}

\* C5 witness: a dry run has returned with an operation recorded as success.
DryRunWritesNothingWitness == Returned /\ dryRun /\ \E i \in Processed : Recorded(i, "success")

----------------------------------------------------------------------------
(* C6 *)

\* The position in the plan of the operation with the given id
OpIndex(id) == CHOOSE i \in DOMAIN plan.ops : plan.ops[i].id = id

----------------------------------------------------------------------------
(* C7 *)

\* The search text of the i-th operation, a search-replace operation, is absent
\* from the content read
SearchAbsent(i) ==
    /\ plan.ops[i].type = "search_replace"
    /\ HasRead(i)
    /\ plan.ops[i].search # plan.ops[i].replace
    /\ ~Includes(ReadContent(i), plan.ops[i].search)

\* The anchor matcher returns null on the i-th operation, an anchor operation
AnchorFails(i) ==
    /\ plan.ops[i].type = "anchor"
    /\ HasRead(i)
    /\ ~ApplyAnchorPatch(ReadContent(i), plan.ops[i]).ok

----------------------------------------------------------------------------
(* C8 *)

\* The deny entries handed in with the custom constraints of the recorded call
CustomDenyEntries == IF "denyPaths" \in call.custom.has THEN Range(call.custom.denyPaths) ELSE {}

----------------------------------------------------------------------------
(* C9 *)

\* The envelope in use was produced by applySecurityConstraints or by
\* createConservativeEnvelope
HardenedInUse ==
    /\ InRun
    /\ \/ call.fn = "handlePatchRequest"
       \/ envelope = CreateConservativeEnvelope(PlanId, [NoConstraints EXCEPT !.has = {"allowOps"}, !.allowOps = AllOps])

\* Files of the working directory that the conservative deny list names
DenyListedFiles == { <<".env">>, <<"package-lock.json">>, <<"a", ".tmp">> }

\* C9 as stated: under a hardened envelope an operation on .env, on
\* package-lock.json or on a *.tmp file of the working directory is recorded
\* as skipped and the file is not written.
DenyListedFilesSkipped ==
    HardenedInUse
        => \A i \in Processed :
              plan.ops[i].filePath \in DenyListedFiles
                  => /\ Recorded(i, "skipped")
                     /\ ~Wrote(i)
                     /\ files[PathResolve(plan.ops[i].filePath)] = files0[PathResolve(plan.ops[i].filePath)]

----------------------------------------------------------------------------
(* C10 *)

\* The resolved path of the i-th operation lies under a deny entry of the
\* envelope sent with the request
CallerDenied(i) ==
    \E d \in Range(reqEnvelope.envelope.scope.denyPaths) :
        StartsWith(PathResolve(plan.ops[i].filePath), NormalizeEntry(d))

\* C10 as stated: every deny entry of the envelope sent to POST /v1/patch is,
\* as sent or normalized, among the deny entries of the envelope used for the
\* run and of the envelope of the response, and an operation on a file under
\* such an entry is skipped.
CallerDenyPathsKept ==
    (InRun /\ call.fn = "handlePatchRequest" /\ reqEnvelope.present)
        => /\ \A d \in Range(reqEnvelope.envelope.scope.denyPaths) :
                 /\ {d, NormalizeEntry(d)} \cap Range(envelope.scope.denyPaths) # {}
                 /\ Returned => {d, NormalizeEntry(d)} \cap Range(response.envelope.scope.denyPaths) # {}
           /\ \A i \in Processed : CallerDenied(i) => Recorded(i, "skipped")

----------------------------------------------------------------------------
(* Runs confined to the working directory: plans that name files outside it *)

\* Paths that resolve outside the working directory: through "..", absolute,
\* and in a sibling directory whose name begins with the name of the working
\* directory; the last one leaves the working directory and comes back
OutsidePaths ==
    { <<"..", "/", "x", "/", "b">>, <<"/", "opt", "/", "b">>, <<"/", "w", "2", "/", "b">>,
      <<"s", "/", "..", "/", "..", "/", "b">> }

InsidePaths == { FileA, <<"..", "/", "w", "/", "a">>, <<".", "/", "s", "/", "b">> }

ConfinedTemplates == {SearchReplaceOp(f, <<"x">>, <<"y">>) : f \in OutsidePaths \cup InsidePaths}

ConfinedPlans ==
    { [id |-> PlanId, ops |-> [i \in DOMAIN ts |-> [ts[i] EXCEPT !.id = OpId(i)]]] :
        ts \in UNION {[1..n -> ConfinedTemplates] : n \in 0..MaxOps} }

\* Every file named by a plan exists and holds the text x
ConfinedFileSystem == [p \in {PathResolve(f) : f \in OutsidePaths \cup InsidePaths} |-> File(<<"x">>)]

\* Custom constraints without allow-paths: none at all, an empty list, other
\* keys only
ConstraintsWithoutAllowPaths ==
    { NoConstraints,
      [NoConstraints EXCEPT !.has = {"allowPaths"}],
      [NoConstraints EXCEPT !.has = {"allowOps"}, !.allowOps = AllOps],
      [NoConstraints EXCEPT !.has = {"denyPaths"}, !.denyPaths = << <<"s">> >>] }

\* Hardened envelopes built without allow-paths, by createConservativeEnvelope
\* and by applySecurityConstraints on an envelope whose own scope allows /opt/
HardenedWithoutAllowPaths ==
    { CreateConservativeEnvelope(PlanId, c) : c \in ConstraintsWithoutAllowPaths }
    \cup { ApplySecurityConstraints(Envelope(<<"caller">>, Scope(<< <<"/", "opt", "/">> >>, <<>>, AllOps), DefaultOptions), c) :
             c \in ConstraintsWithoutAllowPaths }

InitConfined ==
    /\ pc = "idle"
    /\ files = ConfinedFileSystem
    /\ files0 = files
    /\ plan = NoPlan
    /\ envelope = NoEnvelope
    /\ reqEnvelope = [present |-> FALSE, envelope |-> NoEnvelope]
    /\ dryRun = FALSE
    /\ idx = 1
    /\ results = <<>>
    /\ fsLog = <<>>
    /\ stratLog = <<>>
    /\ response = [status |-> 0]
    /\ call = [fn |-> "none"]
    /\ ServiceInit

\* runPlan(plan, envelope, dryRun) with a hardened envelope
RunConfinedPlanCall ==
    /\ pc = "idle"
    /\ \E p \in ConfinedPlans, e \in HardenedWithoutAllowPaths, d \in BOOLEAN :
          /\ plan' = p
          /\ envelope' = e
          /\ dryRun' = d
    /\ pc' = "running"
    /\ call' = [fn |-> "runPlan"]
    /\ UNCHANGED <<files, files0, reqEnvelope, idx, results, fsLog, stratLog, response>>
    /\ UNCHANGED serviceVars

NextConfined ==
    \/ RunConfinedPlanCall
    \/ RunOp
    \/ ReturnResult

SpecConfined == InitConfined /\ [][NextConfined]_vars

----------------------------------------------------------------------------
(* C11 *)

InsideCwd(resolvedPath) == StartsWith(resolvedPath, ProcessCwd \o <<"/">>)

\* The i-th operation names a file whose resolved path is outside the working
\* directory
Escapes(i) == ~InsideCwd(PathResolve(plan.ops[i].filePath))

\* C11: under a hardened envelope built without allow-paths, every file-system
\* call of runPlan is on a path inside the working directory, every file
\* outside it keeps its content, and an operation whose path resolves outside
\* it (absolute or through "..") is recorded as skipped with no file-system
\* call made for it.
ConfinedToCwd ==
    (InRun /\ envelope \in HardenedWithoutAllowPaths)
        => /\ \A c \in Range(fsLog) : InsideCwd(c.path)
           /\ \A p \in DOMAIN files : ~InsideCwd(p) => files[p] = files0[p]
           /\ \A i \in Processed : Escapes(i) => Recorded(i, "skipped") /\ FsCallsOf(i) = {}

\* C11 witness: a run that was not a dry run has returned after skipping an
\* operation that leaves the working directory through ".." and writing a file
\* inside it.
ConfinedToCwdWitness ==
    /\ Returned
    /\ envelope \in HardenedWithoutAllowPaths
    /\ \E i \in Processed : Escapes(i) /\ plan.ops[i].filePath = <<"..", "/", "x", "/", "b">>
    /\ \E i \in Processed : Wrote(i)

----------------------------------------------------------------------------
(* C12 *)

\* applySecurityConstraints or createConservativeEnvelope has returned
Hardened == call.fn \in {"applySecurityConstraints", "createConservativeEnvelope"}

\* C12: for every input, with maxRetries and timeBudgetSec zero, negative,
\* above the caps or missing, the scope returned by applySecurityConstraints
\* has maxRetries at most 5 and timeBudgetSec at most 600; so has the scope
\* of the envelope that POST /v1/patch runs a plan with.
RetriesAndBudgetCapped ==
    /\ Hardened => call.result.scope.maxRetries <= 5 /\ call.result.scope.timeBudgetSec <= 600
    /\ (InRun /\ call.fn = "handlePatchRequest")
          => envelope.scope.maxRetries <= 5 /\ envelope.scope.timeBudgetSec <= 600

\* C12 witness: the caller asked for 9 retries and 900 seconds and got 5 and
\* 600.
RetriesAndBudgetCappedWitness ==
    /\ call.fn = "applySecurityConstraints"
    /\ {"maxRetries", "timeBudgetSec"} \subseteq call.custom.has
    /\ call.custom.maxRetries = 9 /\ call.custom.timeBudgetSec = 900
    /\ call.result.scope.maxRetries = 5 /\ call.result.scope.timeBudgetSec = 600

----------------------------------------------------------------------------
(* config.ts: the configuration loader.  Addresses are strings of the      *)
(* characters "0".."9", ".", "/" and ":"; a 32-bit word is the sequence of *)
(* its four bytes, the most significant first.                             *)

PortMin == 9600

PortMax == 9699

PortDefault == 9611

Localhost == <<"localhost">>

Ip127001 == <<"1", "2", "7", ".", "0", ".", "0", ".", "1">>

Ip6Loopback == <<":", ":", "1">>

LoopbackHosts == {Ip127001, Ip6Loopback, Localhost}

Ip0000 == <<"0", ".", "0", ".", "0", ".", "0">>

DigitValue == [c \in {"0", "1", "2", "3", "4", "5", "6", "7", "8", "9"} |->
                 CASE c = "0" -> 0 [] c = "1" -> 1 [] c = "2" -> 2 [] c = "3" -> 3 [] c = "4" -> 4
                   [] c = "5" -> 5 [] c = "6" -> 6 [] c = "7" -> 7 [] c = "8" -> 8 [] c = "9" -> 9]

IsDigits(s) == s # <<>> /\ \A i \in 1..Len(s) : s[i] \in DOMAIN DigitValue

RECURSIVE Decimal(_)
Decimal(s) == IF s = <<>> THEN 0 ELSE 10 * Decimal(SubSeq(s, 1, Len(s) - 1)) + DigitValue[s[Len(s)]]

\* Number(s) for a string of decimal digits; NaN for the other strings of
\* the inputs, none of which is empty, blank, signed, hexadecimal or exponential
NumberOf(s) == IF IsDigits(s) THEN [nan |-> FALSE, val |-> Decimal(s)] ELSE [nan |-> TRUE, val |-> 0]

\* One part of a dotted quad: one to three digits, no leading zero, at most 255
IsOctet(part) ==
    /\ IsDigits(part)
    /\ Len(part) <= 3
    /\ Len(part) > 1 => part[1] # "0"
    /\ Decimal(part) <= 255

\* net.isIP(host) === 4
IsIPv4Parts(parts) == Len(parts) = 4 /\ \A i \in 1..4 : IsOctet(parts[i])

IsIPv4(host) == IsIPv4Parts(Split(host, <<".">>))

ZeroWord == <<0, 0, 0, 0>>

RECURSIVE BitAnd(_, _, _)
BitAnd(a, b, n) == IF n = 0 THEN 0 ELSE (a % 2) * (b % 2) + 2 * BitAnd(a \div 2, b \div 2, n - 1)

\* x & y
WordAnd(x, y) == [k \in 1..4 |-> BitAnd(x[k], y[k], 8)]

ZeroBitsOfByte(k, n) == IF n - 8 * (4 - k) < 0 THEN 0 ELSE IF n - 8 * (4 - k) > 8 THEN 8 ELSE n - 8 * (4 - k)

\* (~0 << n) >>> 0: the shift count is taken modulo 32
OnesShiftedLeft(n) == [k \in 1..4 |-> 256 - 2 ^ ZeroBitsOfByte(k, n % 32)]

\* (acc << 8) + Number(octet)
ShiftInOctet(acc, octet) == <<acc[2], acc[3], acc[4], Decimal(octet)>>

RECURSIVE ReduceOctets(_, _)
ReduceOctets(parts, acc) ==
    IF parts = <<>> THEN acc ELSE ReduceOctets(Tail(parts), ShiftInOctet(acc, Head(parts)))

\* null is [ok |-> FALSE]
Ipv4ToInt(ip) ==
    IF ~IsIPv4(ip) THEN [ok |-> FALSE, val |-> ZeroWord]
    ELSE [ok |-> TRUE, val |-> ReduceOctets(Split(ip, <<".">>), ZeroWord)]

NoCidr == [ok |-> FALSE, base |-> ZeroWord, mask |-> ZeroWord]

CidrMask(bits) == IF bits = 0 THEN ZeroWord ELSE OnesShiftedLeft(32 - bits)

CidrOf(ipInt, bits) ==
    IF ~ipInt.ok THEN NoCidr ELSE [ok |-> TRUE, base |-> WordAnd(ipInt.val, CidrMask(bits)), mask |-> CidrMask(bits)]

CidrFromParts(ip, bits) ==
    IF bits.nan \/ bits.val < 0 \/ bits.val > 32 THEN NoCidr ELSE CidrOf(Ipv4ToInt(ip), bits.val)

\* const [ip, bitsStr] = entry.split("/")
ParseCidrParts(parts) ==
    IF Len(parts) < 2 \/ parts[1] = <<>> \/ parts[2] = <<>> THEN NoCidr
    ELSE CidrFromParts(parts[1], NumberOf(parts[2]))

ParseCidr(entry) == ParseCidrParts(Split(entry, <<"/">>))

IpIntInCidr(ipInt, cidr) == ipInt.ok /\ WordAnd(ipInt.val, cidr.mask) = cidr.base

IsIpInCidr(ip, cidr) == IpIntInCidr(Ipv4ToInt(ip), cidr)

IsLoopback(host) == host \in LoopbackHosts

EntryCovers(entry, bindIp, cidr) ==
    \/ cidr.ok /\ IsIpInCidr(bindIp, cidr)
    \/ ~Includes(entry, <<"/">>) /\ entry = bindIp

\* Every allowedLANs entry covers every address: validateBindAddress without
\* the check of the entries
IsAddressAllowedAlways(bind, allowedLANs) == "true"

\* "true", "false" or "throw"
IsAddressAllowed(bind, allowedLANs) ==
    IF IsLoopback(bind) THEN "true"
    ELSE IF ~IsIPv4(bind) THEN "throw"
    ELSE IF \E i \in 1..Len(allowedLANs) : EntryCovers(allowedLANs[i], bind, ParseCidr(allowedLANs[i])) THEN "true"
    ELSE "false"

\* TRUE when validateBindAddress returns, FALSE when it throws
ValidateBindAddress(bind, allowLAN, allowedLANs) ==
    IF ~allowLAN /\ ~IsLoopback(bind) THEN FALSE
    ELSE IF ~allowLAN THEN TRUE
    ELSE IF Len(allowedLANs) = 0 THEN FALSE
    ELSE IsLoopback(bind) \/ IsAddressAllowed(bind, allowedLANs) = "true"

\* A loader that accepts every port
ValidatePortAny(port) == TRUE

ValidatePort(port) == ~(port < PortMin \/ port > PortMax)

\* entries.map((entry) => entry.trim()).filter(Boolean)
TrimAndFilter(entries) == SelectSeq(MapSeq(Trim, entries), LAMBDA e : e # <<>>)

Thrown == [threw |-> TRUE]

Sanitized(parsed, allowedLANs) ==
    IF ValidatePort(parsed.port) /\ ValidateBindAddress(parsed.bind, parsed.allowLAN, allowedLANs)
    THEN [threw |-> FALSE, value |-> [parsed EXCEPT !.allowedLANs = allowedLANs]]
    ELSE Thrown

EnforceNetworkConstraints(parsed) == Sanitized(parsed, TrimAndFilter(parsed.allowedLANs))

Cidr10_0_4 == <<"1", "0", ".", "0", ".", "4", ".", "0", "/", "2", "4">>

\* SupervisorConfigSchema.parse({}): of the fields of the configuration, the
\* model keeps the four that the network constraints read
SchemaDefaults == [bind |-> Ip127001, port |-> PortDefault, allowLAN |-> FALSE, allowedLANs |-> <<Cidr10_0_4>>]

\* The content of a configuration file: missing, not JSON, or a JSON value.
\* `has` holds the keys present, port is [kind, val] with kind "int",
\* "float" or "string", and schemaOk tells whether the value is an object
\* whose other fields pass the schema.
SchemaParse(json) ==
    IF ~json.schemaOk THEN Thrown
    ELSE IF "port" \in json.has /\ (json.port.kind # "int" \/ json.port.val <= 0) THEN Thrown
    ELSE [threw |-> FALSE,
          value |-> [bind |-> IF "bind" \in json.has THEN json.bind ELSE SchemaDefaults.bind,
                     port |-> IF "port" \in json.has THEN json.port.val ELSE SchemaDefaults.port,
                     allowLAN |-> IF "allowLAN" \in json.has THEN json.allowLAN ELSE SchemaDefaults.allowLAN,
                     allowedLANs |-> IF "allowedLANs" \in json.has THEN json.allowedLANs
                                     ELSE SchemaDefaults.allowedLANs]]

EnforceParsed(parsed) == IF parsed.threw THEN Thrown ELSE EnforceNetworkConstraints(parsed.value)

\* The try block of loadConfig
TryLoad(file) == IF file.kind # "json" THEN Thrown ELSE EnforceParsed(SchemaParse(file.json))

\* The try block, else the catch block
LoadFresh(tried) == IF tried.threw THEN EnforceNetworkConstraints(SchemaDefaults) ELSE tried

\* loadConfig(configPath) with `file` the content at the path: the value
\* returned (or thrown) and the singleton afterwards
LoadConfig(cfg, file) == IF cfg.set THEN [threw |-> FALSE, value |-> cfg.value] ELSE LoadFresh(TryLoad(file))

----------------------------------------------------------------------------
(* Inputs and calls of the configuration loader *)

Ip10_0_4_10 == <<"1", "0", ".", "0", ".", "4", ".", "1", "0">>

Ip10_0_5_1 == <<"1", "0", ".", "0", ".", "5", ".", "1">>

Ip192_168_1_5 == <<"1", "9", "2", ".", "1", "6", "8", ".", "1", ".", "5">>

HostName == <<"host">>

Cidr0 == Ip0000 \o <<"/", "0">>

Cidr192_168 == <<" ", "1", "9", "2", ".", "1", "6", "8", ".", "0", ".", "0", "/", "1", "6", " ">>

Cidr33 == <<"1", "0", ".", "0", ".", "4", ".", "0", "/", "3", "3">>

CidrX == <<"1", "0", ".", "0", ".", "4", ".", "0", "/", "x">>

ConfigBinds == {Ip127001, Ip6Loopback, Localhost, Ip10_0_4_10, Ip10_0_5_1, Ip192_168_1_5, Ip0000, HostName}

JsonBase == [schemaOk |-> TRUE, has |-> {}, bind |-> <<>>, port |-> [kind |-> "int", val |-> 0],
             allowLAN |-> FALSE, allowedLANs |-> <<>>]

\* allowLAN / allowedLANs as written in the file
LanSettings ==
    { [has |-> {}, allowLAN |-> FALSE, allowedLANs |-> <<>>],
      [has |-> {"allowLAN"}, allowLAN |-> TRUE, allowedLANs |-> <<>>],
      [has |-> {"allowedLANs"}, allowLAN |-> FALSE, allowedLANs |-> <<Cidr0>>] }
    \cup { [has |-> {"allowLAN", "allowedLANs"}, allowLAN |-> TRUE, allowedLANs |-> l] :
             l \in { <<>>, << <<" ">> >>, <<Ip10_0_4_10>>, <<Cidr0>>, <<Ip0000>>, <<Cidr192_168>>, <<Cidr33>>,
                     <<CidrX>>, <<Cidr10_0_4, Ip10_0_5_1>> } }

ConfigPorts ==
    { [kind |-> "int", val |-> v] : v \in {-1, 0, 9500, PortMin - 1, PortMin, 9625, PortMax, PortMax + 1} }
    \cup { [kind |-> "string", val |-> 0], [kind |-> "float", val |-> 9611] }

ConfigJsons ==
    { [JsonBase EXCEPT !.schemaOk = FALSE] }
    \cup { [JsonBase EXCEPT !.has = l.has \cup bs, !.bind = b, !.allowLAN = l.allowLAN, !.allowedLANs = l.allowedLANs] :
             l \in LanSettings, b \in ConfigBinds, bs \in {{"bind"}} }
    \cup { [JsonBase EXCEPT !.has = l.has, !.allowLAN = l.allowLAN, !.allowedLANs = l.allowedLANs] : l \in LanSettings }
    \cup { [JsonBase EXCEPT !.has = {"port"}, !.port = q] : q \in ConfigPorts }
    \cup { [JsonBase EXCEPT !.has = {"port", "bind", "allowLAN"}, !.port = q, !.bind = Ip10_0_4_10, !.allowLAN = TRUE] :
             q \in ConfigPorts }

ConfigFiles ==
    { [kind |-> "missing", json |-> JsonBase], [kind |-> "invalid", json |-> JsonBase] }
    \cup { [kind |-> "json", json |-> j] : j \in ConfigJsons }

InitConfig == InitConfined

\* What a call of loadConfig or getConfig leaves: the singleton and the
\* record of the call
Loaded(fn, file, r) ==
    /\ config' = IF r.threw THEN config ELSE [set |-> TRUE, value |-> r.value]
    /\ call' = [fn |-> fn, file |-> file, cached |-> config.set, threw |-> r.threw,
                result |-> IF r.threw THEN SchemaDefaults ELSE r.value]
    /\ UNCHANGED <<runVars, registryVars>>

\* loadConfig(configPath), the file at the path holding `file`
LoadConfigCall == \E file \in ConfigFiles : Loaded("loadConfig", file, LoadConfig(config, file))

\* getConfig(): the singleton, else loadConfig() on the file at the default path
GetConfigCall == \E file \in ConfigFiles : Loaded("getConfig", file, LoadConfig(config, file))

ResetConfigCall ==
    /\ config' = NoConfig
    /\ call' = [fn |-> "resetConfig"]
    /\ UNCHANGED <<runVars, registryVars>>

NextConfig ==
    \/ LoadConfigCall
    \/ GetConfigCall
    \/ ResetConfigCall

SpecConfig == InitConfig /\ [][NextConfig]_vars

----------------------------------------------------------------------------
(* C13 *)

\* loadConfig or getConfig has returned
ConfigReturned == call.fn \in {"loadConfig", "getConfig"}

\* The i-th bit, the first being the most significant, of a dotted quad
AddressBit(ip, i) == (Decimal(Split(ip, <<".">>)[(i - 1) \div 8 + 1]) \div 2 ^ (7 - ((i - 1) % 8))) % 2

\* The entry is ip/bits and the first `bits` bits of the address are those of ip
BlockContains(entry, k, addr) ==
    /\ IsIPv4(SubSeq(entry, 1, k - 1))
    /\ IsIPv4(addr)
    /\ IsDigits(SubSeq(entry, k + 1, Len(entry)))
    /\ Decimal(SubSeq(entry, k + 1, Len(entry))) <= 32
    /\ \A i \in 1..Decimal(SubSeq(entry, k + 1, Len(entry))) :
          AddressBit(SubSeq(entry, 1, k - 1), i) = AddressBit(addr, i)

\* The entry is the address itself or a CIDR block that contains it
EntryMatches(entry, addr) ==
    \/ entry = addr
    \/ \E k \in 1..Len(entry) : entry[k] = "/" /\ BlockContains(entry, k, addr)

NetworkConstraintsHold(c) ==
    /\ c.port \in 9600..9699
    /\ \/ c.bind \in {Ip127001, Ip6Loopback, Localhost}
       \/ /\ c.allowLAN
          /\ c.allowedLANs # <<>>
          /\ \E k \in 1..Len(c.allowedLANs) : EntryMatches(c.allowedLANs[k], c.bind)

----------------------------------------------------------------------------
(* C14 *)

\* C14 as stated: no configuration returned by loadConfig (or getConfig) has
\* the bind address 0.0.0.0, whatever the file gives for allowLAN and
\* allowedLANs.
NeverBindsAllInterfaces == ConfigReturned => call.result.bind # Ip0000

----------------------------------------------------------------------------
(* C15 *)

\* The value of a field of the file, or its schema default
FieldOf(json, k) == IF k \in json.has THEN json[k] ELSE SchemaDefaults[k]

FailsSchema(json) == ~json.schemaOk \/ ("port" \in json.has /\ (json.port.kind # "int" \/ json.port.val <= 0))

PortOf(json) == IF "port" \in json.has THEN json.port.val ELSE SchemaDefaults.port

IsLoopbackBind(json) == FieldOf(json, "bind") \in {Ip127001, Ip6Loopback, Localhost}

\* The file breaks one of the network constraints
ViolatesNetworkConstraint(json) ==
    \/ PortOf(json) \notin 9600..9699
    \/ ~FieldOf(json, "allowLAN") /\ ~IsLoopbackBind(json)
    \/ FieldOf(json, "allowLAN") /\ FieldOf(json, "allowedLANs") = <<>>
    \/ /\ FieldOf(json, "allowLAN")
       /\ ~IsLoopbackBind(json)
       /\ \A k \in 1..Len(FieldOf(json, "allowedLANs")) :
             ~EntryMatches(Trim(FieldOf(json, "allowedLANs")[k]), FieldOf(json, "bind"))

\* The file is not valid JSON, fails the schema or violates a network constraint
Rejected(file) ==
    \/ file.kind = "invalid"
    \/ file.kind = "json" /\ (FailsSchema(file.json) \/ ViolatesNetworkConstraint(file.json))

IsValidatedDefaults(c) == c.port = 9611 /\ c.bind = Ip127001 /\ c.allowLAN = FALSE

----------------------------------------------------------------------------
(* registry.ts: observations and suggested operations.  A Date is the      *)
(* number of its milliseconds; of a Registry the model keeps the two       *)
(* arrays, of a SuggestedOp the id and the operation.                      *)

RegistryMaxEntriesDefault == 500

\* A matching that compares the file only
SameObservationByFile(obs, observation) == obs.file = observation.file

SameObservation(obs, observation) ==
    /\ obs.file = observation.file
    /\ obs.classification = observation.classification
    /\ obs.message = observation.message

\* observations.findIndex(...): the 0-based index of the first match, or -1
FindIndex(observations, observation) ==
    Least({i - 1 : i \in {k \in 1..Len(observations) : SameObservation(observations[k], observation)}})

\* Array.from(new Set(list)): the first occurrence of each element, in order
RECURSIVE Dedup(_, _)
Dedup(list, acc) ==
    IF list = <<>> THEN acc
    ELSE Dedup(Tail(list), IF \E k \in 1..Len(acc) : acc[k] = Head(list) THEN acc ELSE Append(acc, Head(list)))

\* anchors is [has, hasAfter, triedAfter, hasBefore, triedBefore]: an absent
\* object or key has its flag FALSE and the empty list
NoAnchors == [has |-> FALSE, hasAfter |-> FALSE, triedAfter |-> <<>>, hasBefore |-> FALSE, triedBefore |-> <<>>]

MergeAnchors(existing, observed) ==
    IF ~observed.has THEN existing
    ELSE [has |-> TRUE,
          hasAfter |-> existing.hasAfter \/ observed.hasAfter,
          triedAfter |-> IF observed.hasAfter THEN Dedup(existing.triedAfter \o observed.triedAfter, <<>>)
                         ELSE existing.triedAfter,
          hasBefore |-> existing.hasBefore \/ observed.hasBefore,
          triedBefore |-> IF observed.hasBefore THEN Dedup(existing.triedBefore \o observed.triedBefore, <<>>)
                          ELSE existing.triedBefore]

\* candidates is [has, keys, after, before, insert]
NoCandidates == [has |-> FALSE, keys |-> {}, after |-> <<>>, before |-> <<>>, insert |-> <<>>]

\* { ...existing.candidates, ...observation.candidates }
MergeCandidates(existing, observed) ==
    IF ~observed.has THEN existing
    ELSE [has |-> TRUE,
          keys |-> existing.keys \cup observed.keys,
          after |-> IF "after" \in observed.keys THEN observed.after ELSE existing.after,
          before |-> IF "before" \in observed.keys THEN observed.before ELSE existing.before,
          insert |-> IF "insert" \in observed.keys THEN observed.insert ELSE existing.insert]

MergeExisting(existing, observation) ==
    [existing EXCEPT !.lastSeen = observation.lastSeen,
                     !.count = @ + observation.count,
                     !.anchors = MergeAnchors(@, observation.anchors),
                     !.candidates = MergeCandidates(@, observation.candidates)]

MergeAt(observations, existingIndex, observation) ==
    IF existingIndex >= 0
    THEN [observations EXCEPT ![existingIndex + 1] = MergeExisting(@, observation)]
    ELSE Append(observations, observation)

\* mergeObservation(registry, observation): registry.observations afterwards
MergeObservation(observations, observation) ==
    MergeAt(observations, FindIndex(observations, observation), observation)

\* The callback of suggestedOps.some(...)
IsDuplicate(existing, suggestedOp) ==
    IF existing.op.filePath # suggestedOp.op.filePath THEN FALSE
    ELSE IF existing.op.type # suggestedOp.op.type THEN FALSE
    ELSE IF suggestedOp.op.type = "search_replace"
         THEN existing.op.search = suggestedOp.op.search /\ existing.op.replace = suggestedOp.op.replace
    ELSE IF suggestedOp.op.type = "anchor"
         THEN /\ existing.op.anchor = suggestedOp.op.anchor
              /\ existing.op.insert = suggestedOp.op.insert
              /\ existing.op.position = suggestedOp.op.position
    ELSE IF suggestedOp.op.type = "ast"
         THEN /\ existing.op.selector = suggestedOp.op.selector
              /\ existing.op.operation = suggestedOp.op.operation
              /\ existing.op.content = suggestedOp.op.content
    ELSE FALSE

\* An addSuggestedOp without the check for duplicates
AddSuggestedOpAlways(suggestedOps, suggestedOp) == Append(suggestedOps, suggestedOp)

\* addSuggestedOp(registry, suggestedOp): registry.suggestedOps afterwards
AddSuggestedOp(suggestedOps, suggestedOp) ==
    IF \E k \in 1..Len(suggestedOps) : IsDuplicate(suggestedOps[k], suggestedOp) THEN suggestedOps
    ELSE Append(suggestedOps, suggestedOp)

\* The number of elements that stay before o in a stable ascending sort
SortedPrefix(sorted, o) == Cardinality({k \in 1..Len(sorted) : sorted[k].lastSeen <= o.lastSeen})

InsertSorted(sorted, o, n) == SubSeq(sorted, 1, n) \o <<o>> \o SubSeq(sorted, n + 1, Len(sorted))

\* [...observations].sort((a, b) => a.lastSeen.getTime() - b.lastSeen.getTime())
RECURSIVE SortByLastSeen(_, _)
SortByLastSeen(observations, sorted) ==
    IF observations = <<>> THEN sorted
    ELSE SortByLastSeen(Tail(observations), InsertSorted(sorted, Head(observations), SortedPrefix(sorted, Head(observations))))

\* array.slice(start): a negative start counts from the end, and -0 is 0
SliceFrom(array, start) ==
    IF start < 0 THEN SubSeq(array, (IF Len(array) + start < 0 THEN 0 ELSE Len(array) + start) + 1, Len(array))
    ELSE SubSeq(array, start + 1, Len(array))

\* limitRegistrySize(registry, maxEntries): registry.observations afterwards
LimitRegistrySize(observations, maxEntries) ==
    IF Len(observations) <= maxEntries THEN observations
    ELSE SliceFrom(SortByLastSeen(observations, <<>>), 0 - maxEntries)

----------------------------------------------------------------------------
(* Inputs and calls of the registry functions *)

\* At most MaxMerges calls of mergeObservation and addSuggestedOp are followed
MaxMerges == 3

FileB == <<"b">>

Observation(file, classification, message) ==
    [file |-> file, classification |-> classification, message |-> message, anchors |-> NoAnchors,
     candidates |-> NoCandidates, firstSeen |-> 1, lastSeen |-> 1, count |-> 1]

\* Four triples that differ in the file, in the classification or in the message
ObservedTriples ==
    { Observation(FileA, "unknown", <<"m1">>), Observation(FileA, "unknown", <<"m2">>),
      Observation(FileA, "anchor_mismatch", <<"m1">>), Observation(FileB, "unknown", <<"m1">>) }

\* Each seen once at time 1; two of them also seen twice at time 2 with an
\* anchor tried and a candidate, two of them once at time 3 with more of them
ObservationInputs ==
    ObservedTriples
    \cup { [o EXCEPT !.firstSeen = 2, !.lastSeen = 2, !.count = 2,
                     !.anchors = [NoAnchors EXCEPT !.has = TRUE, !.hasAfter = TRUE, !.triedAfter = << <<"x">> >>],
                     !.candidates = [NoCandidates EXCEPT !.has = TRUE, !.keys = {"after"}, !.after = <<"x">>]] :
             o \in {Observation(FileA, "unknown", <<"m1">>), Observation(FileB, "unknown", <<"m1">>)} }
    \cup { [o EXCEPT !.firstSeen = 3, !.lastSeen = 3,
                     !.anchors = [has |-> TRUE, hasAfter |-> TRUE, triedAfter |-> << <<"x">>, <<"y">> >>,
                                  hasBefore |-> TRUE, triedBefore |-> << <<"z">> >>],
                     !.candidates = [NoCandidates EXCEPT !.has = TRUE, !.keys = {"after", "insert"},
                                                         !.after = <<"y">>, !.insert = <<"c">>]] :
             o \in {Observation(FileA, "unknown", <<"m1">>), Observation(FileA, "unknown", <<"m2">>)} }

SuggestedOp(id, op) == [id |-> id, op |-> [op EXCEPT !.id = <<"fixed-">> \o id]]

\* Suggestions: the first two differ in the id only, the two "after" anchors
\* in the offset only
SuggestionInputs ==
    { SuggestedOp(<<"s1">>, SearchReplaceOp(FileA, <<"x">>, <<"y">>)),
      SuggestedOp(<<"s2">>, SearchReplaceOp(FileA, <<"x">>, <<"y">>)),
      SuggestedOp(<<"s3">>, SearchReplaceOp(FileA, <<"x">>, <<"z">>)),
      SuggestedOp(<<"s4">>, SearchReplaceOp(FileB, <<"x">>, <<"y">>)),
      SuggestedOp(<<"s5">>, AnchorOp(FileA, <<"x">>, <<"c">>, "after", FALSE, 0)),
      SuggestedOp(<<"s6">>, AnchorOp(FileA, <<"x">>, <<"c">>, "after", TRUE, 1)),
      SuggestedOp(<<"s7">>, AnchorOp(FileA, <<"x">>, <<"c">>, "before", FALSE, 0)),
      SuggestedOp(<<"s8">>, AstOp(FileA, <<"addImport", ":", "n", ":", "m">>, "insert_before", <<>>)) }

ObservationsOf(r) == IF r.obsShared THEN defaultRegistry.observations ELSE r.observations

SuggestedOpsOf(r) == IF r.sugShared THEN defaultRegistry.suggestedOps ELSE r.suggestedOps

\* A caller builds a registry { version, updatedAt, observations: [], suggestedOps: [] }
NewRegistryCall ==
    /\ registry' = [NoRegistry EXCEPT !.held = TRUE]
    /\ mergeLog' = [valid |-> TRUE, merged |-> <<>>, added |-> 0]
    /\ call' = [fn |-> "newRegistry"]
    /\ UNCHANGED <<runVars, config, updaters, defaultRegistry, registryFile>>

\* The array that registry.observations names now holds `observations`
ObservationsBecome(observations) ==
    /\ registry' = IF registry.obsShared THEN registry ELSE [registry EXCEPT !.observations = observations]
    /\ defaultRegistry' = IF registry.obsShared THEN [defaultRegistry EXCEPT !.observations = observations]
                          ELSE defaultRegistry

SuggestedOpsBecome(suggestedOps) ==
    /\ registry' = IF registry.sugShared THEN registry ELSE [registry EXCEPT !.suggestedOps = suggestedOps]
    /\ defaultRegistry' = IF registry.sugShared THEN [defaultRegistry EXCEPT !.suggestedOps = suggestedOps]
                          ELSE defaultRegistry

\* mergeObservation(registry, observation) with an observation just created
MergeObservationCall ==
    /\ registry.held
    /\ Len(mergeLog.merged) + mergeLog.added < MaxMerges
    /\ \E observation \in ObservationInputs :
          /\ ObservationsBecome(MergeObservation(ObservationsOf(registry), observation))
          /\ mergeLog' = [mergeLog EXCEPT !.merged = Append(@, observation)]
          /\ call' = [fn |-> "mergeObservation", observation |-> observation,
                      before |-> ObservationsOf(registry)]
    /\ UNCHANGED <<runVars, config, updaters, registryFile>>

\* addSuggestedOp(registry, suggestedOp)
AddSuggestedOpCall ==
    /\ registry.held
    /\ Len(mergeLog.merged) + mergeLog.added < MaxMerges
    /\ \E suggestedOp \in SuggestionInputs :
          /\ SuggestedOpsBecome(AddSuggestedOp(SuggestedOpsOf(registry), suggestedOp))
          /\ call' = [fn |-> "addSuggestedOp", suggestedOp |-> suggestedOp, before |-> SuggestedOpsOf(registry)]
    /\ mergeLog' = [mergeLog EXCEPT !.added = @ + 1]
    /\ UNCHANGED <<runVars, config, updaters, registryFile>>

\* limitRegistrySize(registry, maxEntries), and limitRegistrySize(registry)
\* with the default of 500.  When it trims, registry.observations is a new
\* array (of the same observation objects).
LimitRegistrySizeCall ==
    /\ registry.held
    /\ \E maxEntries \in 0..MaxMerges \cup {RegistryMaxEntriesDefault} :
          /\ registry' = IF Len(ObservationsOf(registry)) <= maxEntries THEN registry
                         ELSE [registry EXCEPT !.obsShared = FALSE,
                                               !.observations = LimitRegistrySize(ObservationsOf(registry), maxEntries)]
          /\ call' = [fn |-> "limitRegistrySize", maxEntries |-> maxEntries, before |-> ObservationsOf(registry)]
    /\ mergeLog' = [mergeLog EXCEPT !.valid = FALSE]
    /\ UNCHANGED <<runVars, config, updaters, defaultRegistry, registryFile>>

\* What a test leaves at the registry path with fs.writeFile: text that is
\* not JSON, JSON that is not a registry ("{}"), or a registry with one
\* observation and no suggestion
WrittenFiles ==
    { [kind |-> "corrupt"], [kind |-> "other"],
      [kind |-> "json", observations |-> <<Observation(FileA, "anchor_mismatch", <<"m1">>)>>, suggestedOps |-> <<>>] }

\* fs.writeFile(registryPath, ...) by the caller
WriteFileCall ==
    /\ \E file \in WrittenFiles :
          /\ registryFile # file
          /\ registryFile' = file
          /\ call' = [fn |-> "writeFile", kind |-> file.kind]
    /\ UNCHANGED <<runVars, config, updaters, defaultRegistry, registry, mergeLog>>

\* fs.unlink(registryPath) by the caller
UnlinkCall ==
    /\ registryFile # MissingFile
    /\ registryFile' = MissingFile
    /\ call' = [fn |-> "unlink"]
    /\ UNCHANGED <<runVars, config, updaters, defaultRegistry, registry, mergeLog>>

\* { ...DEFAULT_REGISTRY }: a new object whose observations and suggestedOps
\* are the arrays of DEFAULT_REGISTRY themselves
DefaultRegistryCopy == [NoRegistry EXCEPT !.held = TRUE, !.obsShared = TRUE, !.sugShared = TRUE]

\* JSON.parse of a registry file, with the dates converted back
ParsedRegistry(file) ==
    [NoRegistry EXCEPT !.held = TRUE, !.observations = file.observations, !.suggestedOps = file.suggestedOps]

\* readRegistry(registryPath): the registry returned, or threw is TRUE.  A
\* file that is not JSON is copied to a backup first.  JSON without an
\* observations array makes registry.observations.map throw a TypeError,
\* which is thrown on.
ReadRegistry(file) ==
    IF file.kind = "json" THEN [threw |-> FALSE, backup |-> FALSE, registry |-> ParsedRegistry(file)]
    ELSE IF file.kind = "missing" THEN [threw |-> FALSE, backup |-> FALSE, registry |-> DefaultRegistryCopy]
    ELSE IF file.kind = "corrupt" THEN [threw |-> FALSE, backup |-> TRUE, registry |-> DefaultRegistryCopy]
    ELSE [threw |-> TRUE, backup |-> FALSE, registry |-> NoRegistry]

\* The caller's const registry = await readRegistry(registryPath)
ReadRegistryReturns(r) ==
    /\ registry' = IF r.threw THEN registry ELSE r.registry
    /\ call' = [fn |-> "readRegistry", file |-> registryFile.kind, threw |-> r.threw, backup |-> r.backup]

ReadRegistryCall ==
    /\ ReadRegistryReturns(ReadRegistry(registryFile))
    /\ mergeLog' = [mergeLog EXCEPT !.valid = FALSE]
    /\ UNCHANGED <<runVars, config, updaters, defaultRegistry, registryFile>>

\* Reads, merges and additions of one process on one registry path
NextRegistryFile ==
    \/ ReadRegistryCall
    \/ MergeObservationCall
    \/ AddSuggestedOpCall
    \/ WriteFileCall
    \/ UnlinkCall

SpecRegistryFile == InitConfined /\ [][NextRegistryFile]_vars

NextObservations ==
    \/ NewRegistryCall
    \/ MergeObservationCall
    \/ LimitRegistrySizeCall

SpecObservations == InitConfined /\ [][NextObservations]_vars

NextSuggestions ==
    \/ NewRegistryCall
    \/ AddSuggestedOpCall

SpecSuggestions == InitConfined /\ [][NextSuggestions]_vars

----------------------------------------------------------------------------
(* cli/patch.ts: a run of the command-line tool *)

\* DEFAULT_CONSERVATIVE_ENVELOPE.scope.denyPaths
CliDenyPaths ==
    << <<"/", "etc">>, <<"/", "usr">>, <<"/", "bin">>, <<"/", "sbin">>, <<"/", "var">>, <<"/", "sys">>,
       <<"/", "proc">>,
       <<"*", "*", "/", ".ssh">>, <<"*", "*", "/", ".aws">>, <<"*", "*", "/", ".azure">>,
       <<"*", "*", "/", ".config", "/", "gcloud">>, <<"*", "*", "/", ".kube">>,
       <<"*", "*", "/", "node_modules", "/", ".bin">>, <<"*", "*", "/", "target", "/", "debug">>,
       <<"*", "*", "/", "target", "/", "release">>, <<"*", "*", "/", "build">>, <<"*", "*", "/", "dist">> >>

\* The applySecurityConstraints of the command-line tool
CliApplySecurityConstraints(scope) ==
    [scope EXCEPT !.denyPaths = @ \o << <<"*", "*", "/", "*", "0.0.0.0", "*">>, <<"*", "*", "/", "*", "port", "*">>,
                                        <<"*", "*", "/", "*", "listen", "*">> >>]

\* loadTaskEnvelope() without an envelope file
LoadTaskEnvelope ==
    [id |-> <<"default-conservative">>,
     scope |-> CliApplySecurityConstraints([allowPaths |-> <<>>, denyPaths |-> CliDenyPaths, allowOps |-> <<>>,
                                            maxRetries |-> MaxRetriesDefault,
                                            timeBudgetSec |-> TimeBudgetSecDefault]),
     options |-> [DefaultOptions EXCEPT !.continueOnError = TRUE]]

DigitChars == <<"0", "1", "2", "3", "4", "5", "6", "7", "8", "9">>

\* `${n}` for a number n >= 0
RECURSIVE Numeral(_)
Numeral(n) == IF n < 10 THEN <<DigitChars[n + 1]>> ELSE Numeral(n \div 10) \o <<DigitChars[(n % 10) + 1]>>

\* The error report updateRegistry builds for a failed result
CliErrorReport(originalOp, result, now) ==
    [file |-> originalOp.filePath, classification |-> "unknown", message |-> result.error,
     operationId |-> result.opId, timestamp |-> now]

\* createObservation(errorReport) at the time `now`
CreateObservation(errorReport, now) ==
    [file |-> errorReport.file, classification |-> errorReport.classification, message |-> errorReport.message,
     anchors |-> NoAnchors, candidates |-> NoCandidates, firstSeen |-> now, lastSeen |-> now, count |-> 1]

Suggestion(prefix, opPrefix, originalOp, now) ==
    [id |-> <<prefix>> \o Numeral(now), op |-> [originalOp EXCEPT !.id = <<opPrefix>> \o Numeral(now)]]

\* inferSuggestedOps(errorReport, originalOp) for a report without details:
\* the anchor and search cases need details and suggest nothing.  The
\* strategy and the line hint set on the copy of the operation are not among
\* the fields of an operation kept here.
InferSuggestedOps(errorReport, originalOp, now) ==
    IF errorReport.classification \in {"anchor_mismatch", "search_not_found"} THEN <<>>
    ELSE IF errorReport.classification = "multiple_matches"
    THEN (IF originalOp.type = "search_replace"
          THEN <<Suggestion("context-fix-", "context-search-", originalOp, now)>> ELSE <<>>)
    ELSE <<Suggestion("strategy-fix-", "strategy-change-", originalOp, now)>>

RECURSIVE AddSuggestedOps(_, _)
AddSuggestedOps(suggestedOps, suggestions) ==
    IF suggestions = <<>> THEN suggestedOps
    ELSE AddSuggestedOps(AddSuggestedOp(suggestedOps, Head(suggestions)), Tail(suggestions))

\* plan.ops.find((op) => op.id === result.opId)
FoundOp(p, opId) == \E i \in DOMAIN p.ops : p.ops[i].id = opId

FindOp(p, opId) == p.ops[CHOOSE i \in DOMAIN p.ops : p.ops[i].id = opId /\ \A j \in 1..(i - 1) : p.ops[j].id # opId]

\* The body of the loop of updateRegistry for one failed result
RecordFailure(arrays, errorReport, originalOp, now) ==
    [observations |-> MergeObservation(arrays.observations, CreateObservation(errorReport, now)),
     suggestedOps |-> AddSuggestedOps(arrays.suggestedOps, InferSuggestedOps(errorReport, originalOp, now))]

\* The loop of updateRegistry over planResult.results
RECURSIVE RecordFailures(_, _, _, _)
RecordFailures(arrays, rs, p, now) ==
    IF rs = <<>> THEN arrays
    ELSE IF Head(rs).outcome = "failure" /\ Head(rs).error # <<>> /\ FoundOp(p, Head(rs).opId)
    THEN RecordFailures(RecordFailure(arrays, CliErrorReport(FindOp(p, Head(rs).opId), Head(rs), now),
                                      FindOp(p, Head(rs).opId), now),
                        Tail(rs), p, now)
    ELSE RecordFailures(arrays, Tail(rs), p, now)

\* JSON.stringify(registry) written to the registry path
RegistryJson(arrays) == [kind |-> "json", observations |-> arrays.observations, suggestedOps |-> arrays.suggestedOps]

\* updateRegistry(planResult, plan): the registry file afterwards.  When
\* readRegistry throws, the catch block warns and the file is left as it is.
UpdateRegistryFrom(read, file, planResult, p, now) ==
    IF read.threw THEN file
    ELSE RegistryJson(RecordFailures([observations |-> ObservationsOf(read.registry),
                                      suggestedOps |-> SuggestedOpsOf(read.registry)],
                                     planResult.results, p, now))

UpdateRegistry(file, planResult, p, now) == UpdateRegistryFrom(ReadRegistry(file), file, planResult, p, now)

----------------------------------------------------------------------------
(* Runs of the command-line tool, one process each, on one registry file *)

\* The runs followed and the operations of the plan of each: together they
\* name more files than the default size bound of the registry
MaxCliRuns == 101

OpsPerRun == 5

PersistedObservations == IF registryFile.kind = "json" THEN registryFile.observations ELSE <<>>

\* The run number, which is also the reading of the clock during the run
RunNumber == (Len(PersistedObservations) \div OpsPerRun) + 1

\* The i-th operation of run n, on a file that no other operation names and
\* that does not exist
CliOp(n, i) ==
    [SearchReplaceOp(<<"f">> \o Numeral((n - 1) * OpsPerRun + i), <<"x">>, <<"y">>) EXCEPT !.id = <<"op">> \o Numeral(i)]

CliPlan(n) == [id |-> PlanId, ops |-> [i \in 1..OpsPerRun |-> CliOp(n, i)]]

\* main() up to the call of runPlan, in a new process
CliMainCall ==
    /\ pc = "idle"
    /\ RunNumber <= MaxCliRuns
    /\ plan' = CliPlan(RunNumber)
    /\ envelope' = LoadTaskEnvelope
    /\ \E d \in BOOLEAN : dryRun' = d
    /\ pc' = "running"
    /\ idx' = 1
    /\ results' = <<>>
    /\ fsLog' = <<>>
    /\ stratLog' = <<>>
    /\ response' = [status |-> 0]
    /\ call' = [fn |-> "cli"]
    /\ UNCHANGED <<files, files0, reqEnvelope>>
    /\ UNCHANGED serviceVars

\* main() from the return of runPlan on: updateRegistry(planResult, plan),
\* then the report is printed and the process exits
UpdateRegistryCall ==
    /\ pc = "done"
    /\ call.fn = "cli"
    /\ registryFile' = UpdateRegistry(registryFile, response.result, plan, RunNumber)
    /\ pc' = "idle"
    /\ call' = [fn |-> "updateRegistry"]
    /\ UNCHANGED <<files, files0, plan, envelope, reqEnvelope, dryRun, idx, results, fsLog, stratLog, response>>
    /\ UNCHANGED <<config, updaters, defaultRegistry, registry, mergeLog>>

NextCli ==
    \/ CliMainCall
    \/ RunOp
    \/ ReturnResult
    \/ UpdateRegistryCall

SpecCli == InitConfined /\ [][NextCli]_vars

----------------------------------------------------------------------------
(* classifyToolMessage: messages are sequences of single characters *)

UpperLetters == <<"A", "B", "C", "D", "E", "F", "G", "H", "I", "J", "K", "L", "M", "N", "O", "P", "Q", "R", "S", "T", "U", "V", "W", "X", "Y", "Z">>

LowerLetters == <<"a", "b", "c", "d", "e", "f", "g", "h", "i", "j", "k", "l", "m", "n", "o", "p", "q", "r", "s", "t", "u", "v", "w", "x", "y", "z">>

\* The small letter of each capital letter
LowerOf == [c \in {UpperLetters[k] : k \in DOMAIN UpperLetters} |->
              LowerLetters[CHOOSE k \in DOMAIN UpperLetters : UpperLetters[k] = c]]

ToLowerChar(c) == IF c \in DOMAIN LowerOf THEN LowerOf[c] ELSE c

\* msg.toLowerCase()
ToLowerCase(msg) == [i \in DOMAIN msg |-> ToLowerChar(msg[i])]

IsDigitChar(c) == \E k \in DOMAIN DigitChars : DigitChars[k] = c

\* /\d+:\d+/.test(message): a digit, a colon and a digit in a row
HasDigitsColonDigits(message) ==
    \E i \in 1..(Len(message) - 2) : IsDigitChar(message[i]) /\ message[i + 1] = ":" /\ IsDigitChar(message[i + 2])

IncludesAny(message, phrases) == \E p \in phrases : Includes(message, p)

AlreadyAppliedPhrases ==
    { <<"s", "e", "a", "r", "c", "h", " ", "a", "n", "d", " ", "r", "e", "p", "l", "a", "c", "e", " ", "c", "o", "n", "t", "e", "n", "t", " ", "a", "r", "e", " ", "i", "d", "e", "n", "t", "i", "c", "a", "l">>,
      <<"c", "o", "n", "t", "e", "n", "t", " ", "i", "s", " ", "t", "h", "e", " ", "s", "a", "m", "e">>,
      <<"n", "o", " ", "c", "h", "a", "n", "g", "e", "s", " ", "n", "e", "e", "d", "e", "d">>,
      <<"a", "l", "r", "e", "a", "d", "y", " ", "a", "p", "p", "l", "i", "e", "d">> }

AnchorMismatchPhrases ==
    { <<"n", "o", " ", "m", "a", "t", "c", "h", " ", "f", "o", "r", " ", "p", "a", "t", "c", "h", " ", "h", "u", "n", "k">>,
      <<"a", "n", "c", "h", "o", "r", " ", "n", "o", "t", " ", "f", "o", "u", "n", "d">>,
      <<"c", "o", "u", "l", "d", " ", "n", "o", "t", " ", "f", "i", "n", "d", " ", "a", "n", "c", "h", "o", "r">>,
      <<"a", "n", "c", "h", "o", "r", " ", "m", "i", "s", "m", "a", "t", "c", "h">> }

LintPhrases ==
    { <<"e", "s", "l", "i", "n", "t", " ", "e", "r", "r", "o", "r">>,
      <<"l", "i", "n", "t", "i", "n", "g", " ", "e", "r", "r", "o", "r">>,
      <<"l", "i", "n", "t", " ", "e", "r", "r", "o", "r">>,
      <<"e", "s", "l", "i", "n", "t", ":">> }

TypePhrases ==
    { <<"t", "y", "p", "e", "s", "c", "r", "i", "p", "t", " ", "e", "r", "r", "o", "r">>,
      <<"c", "o", "m", "p", "i", "l", "e", " ", "e", "r", "r", "o", "r">>,
      <<"t", "y", "p", "e", " ", "e", "r", "r", "o", "r">>,
      <<"c", "a", "n", "n", "o", "t", " ", "f", "i", "n", "d", " ", "n", "a", "m", "e">> }

TimeoutPhrases ==
    { <<"t", "i", "m", "e", "o", "u", "t">>,
      <<"t", "i", "m", "e", "d", " ", "o", "u", "t">>,
      <<"i", "p", "c", " ", "t", "i", "m", "e", "o", "u", "t">>,
      <<"r", "p", "c", " ", "t", "i", "m", "e", "o", "u", "t">> }

FileNotFoundPhrases ==
    { <<"f", "i", "l", "e", " ", "n", "o", "t", " ", "f", "o", "u", "n", "d">>,
      <<"n", "o", " ", "s", "u", "c", "h", " ", "f", "i", "l", "e">>,
      <<"e", "n", "o", "e", "n", "t">>,
      <<"c", "a", "n", "n", "o", "t", " ", "f", "i", "n", "d", " ", "f", "i", "l", "e">>,
      <<"f", "i", "l", "e", " ", "d", "o", "e", "s", " ", "n", "o", "t", " ", "e", "x", "i", "s", "t">> }

PermissionPhrases ==
    { <<"p", "e", "r", "m", "i", "s", "s", "i", "o", "n", " ", "d", "e", "n", "i", "e", "d">>,
      <<"a", "c", "c", "e", "s", "s", " ", "d", "e", "n", "i", "e", "d">>,
      <<"e", "a", "c", "c", "e", "s">>,
      <<"e", "p", "e", "r", "m">>,
      <<"u", "n", "a", "u", "t", "h", "o", "r", "i", "z", "e", "d">> }

SecurityPhrases ==
    { <<"s", "e", "c", "u", "r", "i", "t", "y", " ", "e", "r", "r", "o", "r">>,
      <<"s", "e", "c", "u", "r", "i", "t", "y", " ", "v", "i", "o", "l", "a", "t", "i", "o", "n">>,
      <<"u", "n", "s", "a", "f", "e", " ", "o", "p", "e", "r", "a", "t", "i", "o", "n">>,
      <<"b", "l", "o", "c", "k", "e", "d", " ", "b", "y", " ", "s", "e", "c", "u", "r", "i", "t", "y", " ", "p", "o", "l", "i", "c", "y">> }

SearchNotFoundPhrases ==
    { <<"s", "e", "a", "r", "c", "h", " ", "n", "o", "t", " ", "f", "o", "u", "n", "d">>,
      <<"p", "a", "t", "t", "e", "r", "n", " ", "n", "o", "t", " ", "f", "o", "u", "n", "d">>,
      <<"n", "o", " ", "m", "a", "t", "c", "h", " ", "f", "o", "u", "n", "d">>,
      <<"c", "o", "u", "l", "d", " ", "n", "o", "t", " ", "f", "i", "n", "d">> }

MultipleMatchesPhrases ==
    { <<"m", "u", "l", "t", "i", "p", "l", "e", " ", "m", "a", "t", "c", "h", "e", "s">>,
      <<"a", "m", "b", "i", "g", "u", "o", "u", "s", " ", "m", "a", "t", "c", "h">>,
      <<"f", "o", "u", "n", "d", " ", "m", "u", "l", "t", "i", "p", "l", "e", " ", "o", "c", "c", "u", "r", "r", "e", "n", "c", "e", "s">> }

AstParsePhrases ==
    { <<"a", "s", "t", " ", "p", "a", "r", "s", "e", " ", "e", "r", "r", "o", "r">>,
      <<"c", "o", "u", "l", "d", " ", "n", "o", "t", " ", "p", "a", "r", "s", "e", " ", "a", "s", "t">>,
      <<"i", "n", "v", "a", "l", "i", "d", " ", "a", "s", "t">> }

SyntaxPhrases ==
    { <<"s", "y", "n", "t", "a", "x", " ", "e", "r", "r", "o", "r">>,
      <<"p", "a", "r", "s", "e", " ", "e", "r", "r", "o", "r">>,
      <<"u", "n", "e", "x", "p", "e", "c", "t", "e", "d", " ", "t", "o", "k", "e", "n">>,
      <<"i", "n", "v", "a", "l", "i", "d", " ", "s", "y", "n", "t", "a", "x">> }

WordWarning == <<"w", "a", "r", "n", "i", "n", "g">>

WordError == <<"e", "r", "r", "o", "r">>

WordProperty == <<"p", "r", "o", "p", "e", "r", "t", "y">>

WordsDoesNotExist == <<"d", "o", "e", "s", " ", "n", "o", "t", " ", "e", "x", "i", "s", "t">>

WordType == <<"t", "y", "p", "e">>

WordsIsNotAssignable == <<"i", "s", " ", "n", "o", "t", " ", "a", "s", "s", "i", "g", "n", "a", "b", "l", "e">>

IsLintMessage(message) ==
    \/ IncludesAny(message, LintPhrases)
    \/ Includes(message, WordWarning) /\ HasDigitsColonDigits(message)
    \/ Includes(message, WordError) /\ HasDigitsColonDigits(message)

IsTypeMessage(message) ==
    \/ IncludesAny(message, TypePhrases)
    \/ Includes(message, WordProperty) /\ Includes(message, WordsDoesNotExist)
    \/ Includes(message, WordType) /\ Includes(message, WordsIsNotAssignable)

\* The chain of if statements on the lower-cased, trimmed message
ClassifyMessage(message) ==
    IF IncludesAny(message, AlreadyAppliedPhrases) THEN "already_applied"
    ELSE IF IncludesAny(message, AnchorMismatchPhrases) THEN "anchor_mismatch"
    ELSE IF IsLintMessage(message) THEN "lint_error"
    ELSE IF IsTypeMessage(message) THEN "type_error"
    ELSE IF IncludesAny(message, TimeoutPhrases) THEN "timeout"
    ELSE IF IncludesAny(message, FileNotFoundPhrases) THEN "file_not_found"
    ELSE IF IncludesAny(message, PermissionPhrases) THEN "permission_error"
    ELSE IF IncludesAny(message, SecurityPhrases) THEN "permission_error"
    ELSE IF IncludesAny(message, SearchNotFoundPhrases) THEN "search_not_found"
    ELSE IF IncludesAny(message, MultipleMatchesPhrases) THEN "multiple_matches"
    ELSE IF IncludesAny(message, AstParsePhrases) THEN "ast_parse_error"
    ELSE IF IncludesAny(message, SyntaxPhrases) THEN "syntax_error"
    ELSE "unknown"

\* A classifier that does not lower-case the message
ClassifyToolMessageAsGiven(msg) == ClassifyMessage(Trim(msg))

ClassifyToolMessage(msg) == ClassifyMessage(Trim(ToLowerCase(msg)))

----------------------------------------------------------------------------
(* generateRemediationPlan: confidences are counted in tenths *)

Classifications ==
    { "already_applied", "anchor_mismatch", "lint_error", "type_error", "search_not_found", "multiple_matches",
      "permission_error", "file_not_found", "syntax_error", "ast_parse_error", "timeout", "retry_exceeded",
      "unknown" }

\* A suggestion with an operation of its own on the file of the report
OwnSuggestion(planId, name, file, confidence) ==
    [id |-> planId \o <<"-", name>>,
     op |-> [SearchReplaceOp(file, <<>>, <<>>) EXCEPT !.id = planId \o <<"-", name, "-op">>],
     strategy |-> "strict", confidence |-> confidence]

\* A suggestion with a copy of the original operation
CopySuggestion(planId, name, op, strategy, confidence) ==
    [id |-> planId \o <<"-", name>>, op |-> [op EXCEPT !.id = planId \o <<"-", name, "-op">>],
     strategy |-> strategy, confidence |-> confidence]

\* text.substring(0, Math.floor(text.length / 2))
FirstHalf(text) == SubSeq(text, 1, Len(text) \div 2)

AnchorSuggestions(planId, errorReport, originalOp) ==
    <<OwnSuggestion(planId, "anchor-fix", errorReport.file, 7)>>
    \o (IF originalOp.present /\ originalOp.op.type = "anchor"
        THEN <<CopySuggestion(planId, "fuzzy-anchor", originalOp.op, "fuzzy", 7)>>
             \o (IF Len(originalOp.op.anchor) > 10
                 THEN <<CopySuggestion(planId, "partial-anchor",
                                       [originalOp.op EXCEPT !.anchor = FirstHalf(@)], "none", 6)>>
                 ELSE <<>>)
        ELSE <<>>)

SearchSuggestions(planId, errorReport, originalOp) ==
    <<OwnSuggestion(planId, "search-fix", errorReport.file, 6)>>
    \o (IF originalOp.present /\ originalOp.op.type = "search_replace"
        THEN <<CopySuggestion(planId, "fuzzy-search", originalOp.op, "fuzzy", 6)>>
             \o (IF Len(originalOp.op.search) > 20
                 THEN <<CopySuggestion(planId, "shorter-search",
                                       [originalOp.op EXCEPT !.search = FirstHalf(@)], "none", 5)>>
                 ELSE <<>>)
        ELSE <<>>)

\* The switch on errorReport.classification
SuggestedOpsFor(planId, errorReport, originalOp) ==
    IF errorReport.classification = "already_applied"
    THEN <<OwnSuggestion(planId, "noop", errorReport.file, 10)>>
    ELSE IF errorReport.classification = "anchor_mismatch" THEN AnchorSuggestions(planId, errorReport, originalOp)
    ELSE IF errorReport.classification = "lint_error"
    THEN <<OwnSuggestion(planId, "lint-fix", errorReport.file, 8)>>
    ELSE IF errorReport.classification = "type_error"
    THEN <<OwnSuggestion(planId, "type-fix", errorReport.file, 8)>>
    ELSE IF errorReport.classification = "file_not_found"
    THEN <<OwnSuggestion(planId, "file-path-fix", errorReport.file, 9)>>
    ELSE IF errorReport.classification = "permission_error"
    THEN <<OwnSuggestion(planId, "permission-fix", errorReport.file, 7)>>
    ELSE IF errorReport.classification = "search_not_found" THEN SearchSuggestions(planId, errorReport, originalOp)
    ELSE <<OwnSuggestion(planId, "generic-fix", errorReport.file, 3)>>

\* A maximum that takes the confidence of the last suggestion
MathMaxLast(numbers) == numbers[Len(numbers)]

\* Math.max(...numbers) for a list that is not empty
MathMax(numbers) == CHOOSE n \in {numbers[k] : k \in DOMAIN numbers} : \A k \in DOMAIN numbers : numbers[k] <= n

\* suggestedOps.length > 0 ? Math.max(...suggestedOps.map((op) => op.confidence)) : 0.1
OverallConfidence(suggestedOps) ==
    IF Len(suggestedOps) > 0 THEN MathMax([k \in DOMAIN suggestedOps |-> suggestedOps[k].confidence]) ELSE 1

RemediationPlan(planId, errorReport, suggestedOps, confidence) ==
    [id |-> planId, errors |-> <<errorReport>>, suggestedOps |-> suggestedOps, confidence |-> confidence,
     estimatedTimeMs |-> Len(suggestedOps) * 1000, requiresConfirmation |-> confidence < 8]

PlanWith(planId, errorReport, suggestedOps) ==
    RemediationPlan(planId, errorReport, suggestedOps, OverallConfidence(suggestedOps))

GenerateRemediationPlan(planId, errorReport, originalOp) ==
    PlanWith(planId, errorReport, SuggestedOpsFor(planId, errorReport, originalOp))

----------------------------------------------------------------------------
(* Error reports and original operations handed to generateRemediationPlan *)

NoOriginalOp == [present |-> FALSE]

\* No operation; anchor operations with an anchor of 1 and of 15 characters;
\* search-replace operations with a search text of 1 and of 22 characters;
\* an AST operation
OriginalOps ==
    { NoOriginalOp }
    \cup { [present |-> TRUE, op |-> op] :
             op \in { AnchorOp(FileA, <<"x">>, <<"c">>, "after", FALSE, 0),
                      AnchorOp(FileA, <<"f", "u", "n", "c", "t", "i", "o", "n", " ", "t", "e", "s", "t", "(", ")">>, <<"c">>, "after", FALSE, 0),
                      SearchReplaceOp(FileA, <<"x">>, <<"y">>),
                      SearchReplaceOp(FileA, <<"c", "o", "n", "s", "t", " ", "v", "a", "l", "u", "e", " ", "=", " ", "c", "o", "m", "p", "u", "t", "e", ";">>, <<"y">>),
                      AstOp(FileA, <<"addImport", ":", "n", ":", "m">>, "insert_before", <<>>) } }

ErrorReports == { [file |-> FileA, classification |-> c, message |-> <<"m">>] : c \in Classifications }

GenerateRemediationPlanCall ==
    /\ call.fn = "none"
    /\ \E errorReport \in ErrorReports, originalOp \in OriginalOps :
          call' = [fn |-> "generateRemediationPlan", errorReport |-> errorReport, originalOp |-> originalOp,
                   result |-> GenerateRemediationPlan(<<"remediation">>, errorReport, originalOp)]
    /\ UNCHANGED <<runVars, serviceVars>>

----------------------------------------------------------------------------
(* Messages classified *)

\* Messages of the tests of the classifier, one without a trigger phrase, one
\* in capitals between blanks, and the empty message
MessageParts ==
    { <<"S", "e", "a", "r", "c", "h", " ", "a", "n", "d", " ", "r", "e", "p", "l", "a", "c", "e", " ", "c", "o", "n", "t", "e", "n", "t", " ", "a", "r", "e", " ", "i", "d", "e", "n", "t", "i", "c", "a", "l">>,
      <<"N", "o", " ", "c", "h", "a", "n", "g", "e", "s", " ", "n", "e", "e", "d", "e", "d">>,
      <<"N", "o", " ", "m", "a", "t", "c", "h", " ", "f", "o", "r", " ", "p", "a", "t", "c", "h", " ", "h", "u", "n", "k">>,
      <<"C", "o", "u", "l", "d", " ", "n", "o", "t", " ", "f", "i", "n", "d", " ", "a", "n", "c", "h", "o", "r">>,
      <<"E", "S", "L", "i", "n", "t", " ", "e", "r", "r", "o", "r">>,
      <<"1", ":", "1", " ", "w", "a", "r", "n", "i", "n", "g", " ", "U", "n", "u", "s", "e", "d", " ", "v", "a", "r", "i", "a", "b", "l", "e">>,
      <<"e", "r", "r", "o", "r", " ", "a", "t", " ", "1", "2", ":", "5">>,
      <<"T", "y", "p", "e", "S", "c", "r", "i", "p", "t", " ", "e", "r", "r", "o", "r">>,
      <<"P", "r", "o", "p", "e", "r", "t", "y", " ", "d", "o", "e", "s", " ", "n", "o", "t", " ", "e", "x", "i", "s", "t", " ", "o", "n", " ", "t", "y", "p", "e">>,
      <<"T", "y", "p", "e", " ", "i", "s", " ", "n", "o", "t", " ", "a", "s", "s", "i", "g", "n", "a", "b", "l", "e">>,
      <<"O", "p", "e", "r", "a", "t", "i", "o", "n", " ", "t", "i", "m", "e", "d", " ", "o", "u", "t">>,
      <<"F", "i", "l", "e", " ", "n", "o", "t", " ", "f", "o", "u", "n", "d">>,
      <<"E", "N", "O", "E", "N", "T", ":", " ", "n", "o", " ", "s", "u", "c", "h", " ", "f", "i", "l", "e">>,
      <<"p", "e", "r", "m", "i", "s", "s", "i", "o", "n", " ", "d", "e", "n", "i", "e", "d">>,
      <<"a", "c", "c", "e", "s", "s", " ", "d", "e", "n", "i", "e", "d">>,
      <<"B", "l", "o", "c", "k", "e", "d", " ", "b", "y", " ", "s", "e", "c", "u", "r", "i", "t", "y", " ", "p", "o", "l", "i", "c", "y">>,
      <<"S", "e", "a", "r", "c", "h", " ", "p", "a", "t", "t", "e", "r", "n", " ", "n", "o", "t", " ", "f", "o", "u", "n", "d">>,
      <<"M", "u", "l", "t", "i", "p", "l", "e", " ", "m", "a", "t", "c", "h", "e", "s", " ", "f", "o", "u", "n", "d">>,
      <<"A", "S", "T", " ", "p", "a", "r", "s", "e", " ", "e", "r", "r", "o", "r">>,
      <<"S", "y", "n", "t", "a", "x", " ", "e", "r", "r", "o", "r">>,
      <<"S", "o", "m", "e", " ", "u", "n", "k", "n", "o", "w", "n", " ", "e", "r", "r", "o", "r">>,
      <<" ", "P", "A", "R", "S", "E", " ", "E", "R", "R", "O", "R", " ">>,
      <<>> }

\* The parts that follow another part
SecondParts ==
    { <<"N", "o", " ", "m", "a", "t", "c", "h", " ", "f", "o", "r", " ", "p", "a", "t", "c", "h", " ", "h", "u", "n", "k">>,
      <<"a", "c", "c", "e", "s", "s", " ", "d", "e", "n", "i", "e", "d">>,
      <<"e", "r", "r", "o", "r", " ", "a", "t", " ", "1", "2", ":", "5">>,
      <<"O", "p", "e", "r", "a", "t", "i", "o", "n", " ", "t", "i", "m", "e", "d", " ", "o", "u", "t">>,
      <<"S", "o", "m", "e", " ", "u", "n", "k", "n", "o", "w", "n", " ", "e", "r", "r", "o", "r">>,
      <<"C", "o", "u", "l", "d", " ", "n", "o", "t", " ", "f", "i", "n", "d", " ", "a", "n", "c", "h", "o", "r">> }

\* A part alone, and two parts with ": " between them
ToolMessages == MessageParts \cup { a \o <<":", " ">> \o b : a \in MessageParts, b \in SecondParts }

ClassifyToolMessageCall ==
    /\ call.fn = "none"
    /\ \E msg \in ToolMessages :
          call' = [fn |-> "classifyToolMessage", msg |-> msg, result |-> ClassifyToolMessage(msg)]
    /\ UNCHANGED <<runVars, serviceVars>>

NextClassifier ==
    \/ ClassifyToolMessageCall
    \/ GenerateRemediationPlanCall

SpecClassifier == InitConfined /\ [][NextClassifier]_vars


----------------------------------------------------------------------------
(* C16 *)

\* The observations at the indices K of a list, as a bag
CountIn(list, K, o) == Cardinality({k \in K : list[k] = o})

\* kept holds exactly the observations of `before` at the indices K
KeepsIndices(kept, before, K) ==
    /\ Cardinality(K) = Len(kept)
    /\ \A o \in Range(before) \cup Range(kept) : CountIn(kept, DOMAIN kept, o) = CountIn(before, K, o)

\* kept holds Min(n, Len(before)) observations of `before`, none of them
\* seen earlier than one that was dropped
KeepsLatest(kept, before, n) ==
    /\ Len(kept) = IF Len(before) < n THEN Len(before) ELSE n
    /\ \E K \in SUBSET DOMAIN before :
          /\ KeepsIndices(kept, before, K)
          /\ \A i \in K, j \in DOMAIN before \ K : before[i].lastSeen >= before[j].lastSeen

\* C16 as stated: for every registry and every N >= 0, N = 0 included,
\* limitRegistrySize(registry, N) returns a registry with at most N
\* observations, those with the N latest lastSeen values.
LimitKeepsLatestN ==
    call.fn = "limitRegistrySize"
        => /\ Len(ObservationsOf(registry)) <= call.maxEntries
           /\ KeepsLatest(ObservationsOf(registry), call.before, call.maxEntries)

----------------------------------------------------------------------------
(* C18 *)

TripleOf(o) == <<o.file, o.classification, o.message>>

RECURSIVE SumOfCounts(_, _)
SumOfCounts(merged, triple) ==
    IF merged = <<>> THEN 0
    ELSE (IF TripleOf(Head(merged)) = triple THEN Head(merged).count ELSE 0) + SumOfCounts(Tail(merged), triple)

\* The registry held was created empty and only mergeObservation has changed
\* its observations
MergedFromEmpty == registry.held /\ mergeLog.valid

\* C18: after any sequence of mergeObservation calls on a registry created
\* empty, no two observations have the same (file, classification, message),
\* the count of each is the sum of the counts of the merged observations with
\* its triple, every merged triple has its observation, and a merge of an
\* observation whose triple is present adds no entry.
MergeKeepsTriplesUnique ==
    MergedFromEmpty
        => /\ \A i, j \in DOMAIN ObservationsOf(registry) :
                 i # j => TripleOf(ObservationsOf(registry)[i]) # TripleOf(ObservationsOf(registry)[j])
           /\ \A i \in DOMAIN ObservationsOf(registry) :
                 ObservationsOf(registry)[i].count
                    = SumOfCounts(mergeLog.merged, TripleOf(ObservationsOf(registry)[i]))
           /\ \A k \in DOMAIN mergeLog.merged :
                 \E i \in DOMAIN ObservationsOf(registry) :
                    TripleOf(ObservationsOf(registry)[i]) = TripleOf(mergeLog.merged[k])
           /\ (/\ call.fn = "mergeObservation"
               /\ \E i \in DOMAIN call.before : TripleOf(call.before[i]) = TripleOf(call.observation))
                 => Len(ObservationsOf(registry)) = Len(call.before)

\* C18 witness: an observation was merged into a registry that held its
\* triple and another observation of the same file, and its count went up.
MergeKeepsTriplesUniqueWitness ==
    /\ MergedFromEmpty
    /\ call.fn = "mergeObservation"
    /\ \E i \in DOMAIN call.before :
          /\ TripleOf(call.before[i]) = TripleOf(call.observation)
          /\ ObservationsOf(registry)[i].count = call.before[i].count + call.observation.count
    /\ \E i, j \in DOMAIN ObservationsOf(registry) :
          i # j /\ ObservationsOf(registry)[i].file = ObservationsOf(registry)[j].file

----------------------------------------------------------------------------
(* C20 *)

\* The fields specific to the type of an operation
TypeSpecificFields(op) ==
    IF op.type = "search_replace" THEN <<op.search, op.replace>>
    ELSE IF op.type = "anchor" THEN <<op.anchor, op.insert, op.position, op.hasOffset, op.offset>>
    ELSE <<op.selector, op.operation, op.content>>

SameSuggestion(x, y) ==
    /\ x.op.filePath = y.op.filePath
    /\ x.op.type = y.op.type
    /\ TypeSpecificFields(x.op) = TypeSpecificFields(y.op)

\* C20: in a registry that started without duplicate suggestions, after any
\* sequence of addSuggestedOp calls no two entries of suggestedOps have the
\* same filePath, operation type and type-specific fields, and adding a
\* suggestion that is already present leaves suggestedOps unchanged.
SuggestionsStayUnique ==
    registry.held
        => /\ \A i, j \in DOMAIN SuggestedOpsOf(registry) :
                 i # j => ~SameSuggestion(SuggestedOpsOf(registry)[i], SuggestedOpsOf(registry)[j])
           /\ (/\ call.fn = "addSuggestedOp"
               /\ \E i \in DOMAIN call.before : SameSuggestion(call.before[i], call.suggestedOp))
                 => SuggestedOpsOf(registry) = call.before

\* C20 witness: a suggestion was added to a registry that held the same
\* operation under another id, next to a second suggestion.
SuggestionsStayUniqueWitness ==
    /\ registry.held
    /\ call.fn = "addSuggestedOp"
    /\ Len(call.before) = 2
    /\ \E i \in DOMAIN call.before :
          SameSuggestion(call.before[i], call.suggestedOp) /\ call.before[i].id # call.suggestedOp.id

----------------------------------------------------------------------------
(* C19 *)

\* C19 as stated: readRegistry on a missing file, or on a file that is not
\* JSON, does not throw and returns a registry with no observations and no
\* suggested operations, whatever was merged or added before in the process.
ReadOfMissingIsEmpty ==
    (call.fn = "readRegistry" /\ call.file \in {"missing", "corrupt"})
        => /\ ~call.threw
           /\ registry.held
           /\ ObservationsOf(registry) = <<>>
           /\ SuggestedOpsOf(registry) = <<>>

----------------------------------------------------------------------------
(* C17 *)

\* C17 as stated: after any sequence of runs of the command-line tool with
\* failing operations, the registry file written by updateRegistry holds at
\* most 500 observations.
PersistedRegistryIsTrimmed ==
    call.fn = "updateRegistry" => Len(PersistedObservations) <= RegistryMaxEntriesDefault

----------------------------------------------------------------------------
(* C27 *)

\* C27 as stated: runPlan returns exactly one result per operation of the
\* plan, in plan order, so results.length and summary.total equal the number
\* of operations, and so does successful + failed + skipped + partial.
OneResultPerOperation ==
    Returned
        => /\ Len(response.result.results) = Len(plan.ops)
           /\ \A i \in DOMAIN response.result.results : response.result.results[i].opId = plan.ops[i].id
           /\ response.result.summary.total = Len(plan.ops)
           /\ response.result.summary.successful + response.result.summary.failed
                + response.result.summary.skipped + response.result.summary.partial = Len(plan.ops)

----------------------------------------------------------------------------
(* C28 *)

\* C28: during runPlan the content of a file changes only in the iteration on
\* an operation that targets the file, in a run that is not dry, and that
\* iteration records the operation as a success; an iteration that records
\* skipped or failure, and an iteration on another file, leave it unchanged.
OnlySuccessWrites ==
    [][\A p \in DOMAIN files :
          files'[p] # files[p]
             => /\ pc = "running"
                /\ idx <= Len(plan.ops)
                /\ PathResolve(plan.ops[idx].filePath) = p
                /\ ~dryRun
                /\ Len(results') > Len(results)
                /\ \A k \in (Len(results) + 1)..Len(results') :
                      results'[k].opId = plan.ops[idx].id /\ results'[k].outcome = "success"]_vars

\* C28 witness: a real run has returned in which one operation changed its
\* file, another operation was recorded as failed or skipped, and the other
\* files are as they were.
OnlySuccessWritesWitness ==
    /\ Returned
    /\ ~dryRun
    /\ \E i, j \in Processed :
          /\ Recorded(i, "success")
          /\ files[PathResolve(plan.ops[i].filePath)] # files0[PathResolve(plan.ops[i].filePath)]
          /\ Recorded(j, "failure") \/ Recorded(j, "skipped")
          /\ \A p \in DOMAIN files : p # PathResolve(plan.ops[i].filePath) => files[p] = files0[p]

----------------------------------------------------------------------------
(* C30 *)

OutcomesOf(rs) == [k \in DOMAIN rs |-> [opId |-> rs[k].opId, outcome |-> rs[k].outcome]]

\* The results of runPlan(plan, envelope, dry) started from the file contents
\* that this run started from
ResultsFrom(dry) == RunLoop(plan.ops, 1, envelope.scope, files0, dry, <<>>).results

\* C30 as stated: a dry run reports the same per-operation outcomes and the
\* same aggregate outcome as a real run started from the same file contents,
\* also when several operations of the plan target the same file.
DryRunReportsRealOutcomes ==
    (Returned /\ dryRun)
        => /\ OutcomesOf(response.result.results) = OutcomesOf(ResultsFrom(FALSE))
           /\ response.result.outcome = PlanResult(plan, ResultsFrom(FALSE)).outcome

----------------------------------------------------------------------------
(* C22 *)

\* The capital letter of each small letter
UpperOf == [c \in {LowerLetters[k] : k \in DOMAIN LowerLetters} |->
              UpperLetters[CHOOSE k \in DOMAIN LowerLetters : LowerLetters[k] = c]]

ToUpperChar(c) == IF c \in DOMAIN UpperOf THEN UpperOf[c] ELSE c

ToUpperCase(msg) == [i \in DOMAIN msg |-> ToUpperChar(msg[i])]

\* The rules in their fixed order.  A trigger is a set of phrases that must
\* all occur; "d:d" stands for a digit, a colon and a digit in a row.
Single(phrases) == {{p} : p \in phrases}

ClassifierRules ==
    << [classification |-> "already_applied", triggers |-> Single(AlreadyAppliedPhrases)],
       [classification |-> "anchor_mismatch", triggers |-> Single(AnchorMismatchPhrases)],
       [classification |-> "lint_error",
        triggers |-> Single(LintPhrases) \cup {{WordWarning, <<"d:d">>}, {WordError, <<"d:d">>}}],
       [classification |-> "type_error",
        triggers |-> Single(TypePhrases) \cup {{WordProperty, WordsDoesNotExist}, {WordType, WordsIsNotAssignable}}],
       [classification |-> "timeout", triggers |-> Single(TimeoutPhrases)],
       [classification |-> "file_not_found", triggers |-> Single(FileNotFoundPhrases)],
       [classification |-> "permission_error", triggers |-> Single(PermissionPhrases)],
       [classification |-> "permission_error", triggers |-> Single(SecurityPhrases)],
       [classification |-> "search_not_found", triggers |-> Single(SearchNotFoundPhrases)],
       [classification |-> "multiple_matches", triggers |-> Single(MultipleMatchesPhrases)],
       [classification |-> "ast_parse_error", triggers |-> Single(AstParsePhrases)],
       [classification |-> "syntax_error", triggers |-> Single(SyntaxPhrases)] >>

\* The phrase, in capitals, occurs in the message in capitals
Occurs(capitals, phrase) ==
    IF phrase = <<"d:d">> THEN HasDigitsColonDigits(capitals)
    ELSE Includes(capitals, ToUpperCase(phrase))

RuleMatches(r, capitals) ==
    \E trigger \in ClassifierRules[r].triggers : \A phrase \in trigger : Occurs(capitals, phrase)

\* The rules with a trigger that occurs in the message, whatever the case of
\* its letters
MatchingRules(msg) == {r \in DOMAIN ClassifierRules : RuleMatches(r, ToUpperCase(msg))}

FirstOf(rules) ==
    IF rules = {} THEN "unknown"
    ELSE ClassifierRules[CHOOSE r \in rules : \A q \in rules : r <= q].classification

FirstRuleClassification(msg) == FirstOf(MatchingRules(msg))

\* C22: classifyToolMessage returns the classification of the first rule, in
\* the fixed order, one of whose triggers occurs in the message, and unknown
\* when none does; the case of the letters does not matter; "No match for
\* patch hunk" is anchor_mismatch and "permission denied: access denied" is
\* permission_error.
FirstMatchingRuleWins ==
    call.fn = "classifyToolMessage"
        => /\ call.result = FirstRuleClassification(call.msg)
           /\ call.result = ClassifyToolMessage(ToUpperCase(call.msg))
           /\ call.msg = <<"N", "o", " ", "m", "a", "t", "c", "h", " ", "f", "o", "r", " ", "p", "a", "t", "c", "h", " ", "h", "u", "n", "k">> => call.result = "anchor_mismatch"
           /\ call.msg = <<"p", "e", "r", "m", "i", "s", "s", "i", "o", "n", " ", "d", "e", "n", "i", "e", "d", ":", " ", "a", "c", "c", "e", "s", "s", " ", "d", "e", "n", "i", "e", "d">> => call.result = "permission_error"

\* C22 witness: a message with the trigger phrases of two rules, in capitals
\* and small letters, got the classification of the earlier rule, which is
\* not the rule of the phrase that comes first in the message.
FirstMatchingRuleWinsWitness ==
    /\ call.fn = "classifyToolMessage"
    /\ call.msg # ToLowerCase(call.msg)
    /\ Cardinality(MatchingRules(call.msg)) >= 2
    /\ call.result = "anchor_mismatch"
    /\ Includes(call.msg, <<"N", "o", " ", "m", "a", "t", "c", "h", " ", "f", "o", "r", " ", "p", "a", "t", "c", "h", " ", "h", "u", "n", "k">>)
    /\ IndexOf(call.msg, <<"N", "o", " ", "m", "a", "t", "c", "h", " ", "f", "o", "r", " ", "p", "a", "t", "c", "h", " ", "h", "u", "n", "k">>) > 0

----------------------------------------------------------------------------
(* C23 *)

ConfidencesOf(remediationPlan) == {remediationPlan.suggestedOps[k].confidence : k \in DOMAIN remediationPlan.suggestedOps}

\* C23: the confidence of the plan that generateRemediationPlan returns is
\* the greatest confidence of its suggested operations (one tenth when it has
\* none), and requiresConfirmation is true exactly when that confidence is
\* below eight tenths.
PlanConfidenceIsMax ==
    call.fn = "generateRemediationPlan"
        => /\ IF ConfidencesOf(call.result) = {} THEN call.result.confidence = 1
              ELSE /\ call.result.confidence \in ConfidencesOf(call.result)
                   /\ \A c \in ConfidencesOf(call.result) : c <= call.result.confidence
           /\ call.result.requiresConfirmation <=> call.result.confidence < 8

\* C23 witness: a plan with suggestions of different confidences, the last
\* one below the first, that requires confirmation.
PlanConfidenceIsMaxWitness ==
    /\ call.fn = "generateRemediationPlan"
    /\ Cardinality(ConfidencesOf(call.result)) >= 2
    /\ call.result.confidence = 7
    /\ call.result.requiresConfirmation

----------------------------------------------------------------------------
(* C24 *)

\* C24 as stated: for every classification other than already_applied,
\* anchor_mismatch, search_not_found and multiple_matches the plan has exactly
\* one suggestion, of confidence three tenths, so the confidence of the plan
\* is three tenths and it requires confirmation.
OtherClassificationsAreGeneric ==
    (/\ call.fn = "generateRemediationPlan"
     /\ call.errorReport.classification
           \notin {"already_applied", "anchor_mismatch", "search_not_found", "multiple_matches"})
        => /\ Len(call.result.suggestedOps) = 1
           /\ call.result.suggestedOps[1].confidence = 3
           /\ call.result.confidence = 3
           /\ call.result.requiresConfirmation

----------------------------------------------------------------------------
(* applyAnchorPatch as a function of its own: contents, anchors and inserts *)

MaxContentLen == 3

MaxAnchorLen == 2

MaxOffset == 2

\* The letters of the contents: a letter and a character that a RegExp would
\* read as a wildcard if the anchor were not escaped
AnchorAlphabet == {"a", "."}

StringsUpTo(n) == UNION {[1..k -> AnchorAlphabet] : k \in 0..n}

TestContent == <<"f", "u", "n", "c", "t", "i", "o", "n", " ", "t", "e", "s", "t", "(", ")", " ", "{", " ", "r", "e", "t", "u", "r", "n", " ", "4", "2", ";", " ", "}">>

TestAnchor == <<"f", "u", "n", "c", "t", "i", "o", "n", " ", "t", "e", "s", "t", "(", ")">>

TestInsert == <<" ", "/", "/", " ", "c">>

AnchorContents == StringsUpTo(MaxContentLen) \cup {TestContent}

AnchorTexts == StringsUpTo(MaxAnchorLen) \cup {TestAnchor}

AnchorInserts == {<<>>, <<"c">>, TestInsert}

\* op.offset: undefined, or a number
AnchorOffsets == {[has |-> FALSE, n |-> 0]} \cup {[has |-> TRUE, n |-> n] : n \in -MaxOffset..MaxOffset}

ApplyAnchorPatchCall ==
    /\ call.fn = "none"
    /\ \E content \in AnchorContents, anchor \in AnchorTexts, insert \in AnchorInserts,
          position \in {"after", "before"}, offset \in AnchorOffsets :
          call' = [fn |-> "applyAnchorPatch", content |-> content,
                   op |-> AnchorOp(FileA, anchor, insert, position, offset.has, offset.n),
                   result |-> ApplyAnchorPatch(content, AnchorOp(FileA, anchor, insert, position, offset.has, offset.n))]
    /\ UNCHANGED <<runVars, serviceVars>>

NextAnchors ==
    \/ ApplyAnchorPatchCall

SpecAnchors == InitConfined /\ [][NextAnchors]_vars

----------------------------------------------------------------------------
(* C25 *)

\* The indices (from 0) at which the anchor stands in the content
OccurrencesOf(anchor, content) ==
    {i \in 0..(Len(content) - Len(anchor)) : \A k \in 1..Len(anchor) : content[i + k] = anchor[k]}

FirstOccurrence(anchor, content) ==
    CHOOSE i \in OccurrencesOf(anchor, content) : \A j \in OccurrencesOf(anchor, content) : i <= j

\* The insertion offset of the claim
InsertionOffset(content, op) ==
    (IF op.position = "after" THEN FirstOccurrence(op.anchor, content) + Len(op.anchor)
                              ELSE FirstOccurrence(op.anchor, content))
    + (IF op.hasOffset THEN op.offset ELSE 0)

\* text is content with insert placed at offset at, nothing else changed
IsInsertion(text, content, insert, at) ==
    /\ Len(text) = Len(content) + Len(insert)
    /\ \A k \in 1..at : text[k] = content[k]
    /\ \A k \in 1..Len(insert) : text[at + k] = insert[k]
    /\ \A k \in (at + 1)..Len(content) : text[k + Len(insert)] = content[k]

\* C25: for non-empty content, anchor and insert text, applyAnchorPatch
\* returns null when the anchor does not occur in the content or when the
\* insertion offset (just after the first occurrence for 'after', at the first
\* occurrence for 'before', plus op.offset) is outside 0..length of the content;
\* otherwise it returns the content with the insert text at that offset and
\* every other character unchanged. The anchor "function test()" with insert
\* " // c" after, on "function test() { return 42; }", gives
\* "function test() // c { return 42; }".
AnchorPatchInsertsAtOffset ==
    (/\ call.fn = "applyAnchorPatch"
     /\ call.content # <<>> /\ call.op.anchor # <<>> /\ call.op.insert # <<>>)
        => /\ IF OccurrencesOf(call.op.anchor, call.content) = {} THEN ~call.result.ok
              ELSE IF InsertionOffset(call.content, call.op) \notin 0..Len(call.content) THEN ~call.result.ok
              ELSE /\ call.result.ok
                   /\ IsInsertion(call.result.val, call.content, call.op.insert,
                                  InsertionOffset(call.content, call.op))
           /\ (/\ call.content = TestContent /\ call.op.anchor = TestAnchor /\ call.op.insert = TestInsert
               /\ call.op.position = "after" /\ ~call.op.hasOffset)
                 => call.result = Some(<<"f", "u", "n", "c", "t", "i", "o", "n", " ", "t", "e", "s", "t", "(", ")", " ", "/", "/", " ", "c", " ", "{", " ", "r", "e", "t", "u", "r", "n", " ", "4", "2", ";", " ", "}">>)

\* C25 witness: an insertion after the first of two occurrences of the
\* anchor, moved by an offset.
AnchorPatchInsertsAtOffsetWitness ==
    /\ call.fn = "applyAnchorPatch"
    /\ call.content = <<"a", ".", "a">> /\ call.op.anchor = <<"a">> /\ call.op.insert = <<"c">>
    /\ call.op.position = "after" /\ call.op.hasOffset /\ call.op.offset = 1
    /\ call.result = Some(<<"a", ".", "c", "a">>)

----------------------------------------------------------------------------
(* ensureImport and addImportStub as functions of their own, applied to
   contents and again to their own output *)

MaxPieces == 3

\* Pieces of source text: named, multi-line, default and other-module imports,
\* a comment, a shebang, a line feed, code and a blank
SourcePieces ==
    { <<"import", " ", "{", " ", "a", " ", "}", " ", "from", " ", "'", "m", "'", ";">>,
      <<"import", " ", "{", "a", "LF", "}", " ", "from", " ", "'", "m", "'", ";">>,
      <<"import", " ", "d", " ", "from", " ", "'", "m", "'", ";">>,
      <<"import", " ", "{", " ", "a", " ", "}", " ", "from", " ", "\"", "k", "\"", ";">>,
      <<"//", " ", "c">>,
      <<"#!", "sh">>,
      <<"LF">>,
      <<"x">>,
      <<" ">> }

RECURSIVE Concat(_)
Concat(pieces) == IF pieces = <<>> THEN <<>> ELSE Head(pieces) \o Concat(Tail(pieces))

SourceContents == {Concat(pieces) : pieces \in UNION {[1..k -> SourcePieces] : k \in 0..MaxPieces}}

\* Binding names: two of letters and the identifier $
BindingNames == {<<"n">>, <<"a">>, <<"$">>}

ModuleNames == {<<"m">>, <<"k">>}

EnsureImportCall ==
    /\ call.fn = "none"
    /\ \E content \in SourceContents, named \in BindingNames, from \in ModuleNames :
          call' = [fn |-> "ensureImport", content |-> content, named |-> named, from |-> from, times |-> 1,
                   result |-> EnsureImport(content, named, from)]
    /\ UNCHANGED <<runVars, serviceVars>>

\* ensureImport applied to its own output
EnsureImportAgainCall ==
    /\ call.fn = "ensureImport"
    /\ call.times = 1
    /\ call' = [call EXCEPT !.content = call.result, !.times = 2,
                            !.result = EnsureImport(call.result, call.named, call.from)]
    /\ UNCHANGED <<runVars, serviceVars>>

AddImportStubCall ==
    /\ call.fn = "none"
    /\ \E content \in SourceContents, named \in BindingNames, from \in ModuleNames :
          call' = [fn |-> "addImportStub", content |-> content, named |-> named, from |-> from, times |-> 1,
                   result |-> AddImportStub(content, named, from)]
    /\ UNCHANGED <<runVars, serviceVars>>

\* addImportStub applied to its own output
AddImportStubAgainCall ==
    /\ call.fn = "addImportStub"
    /\ call.times = 1
    /\ call' = [call EXCEPT !.content = call.result, !.times = 2,
                            !.result = AddImportStub(call.result, call.named, call.from)]
    /\ UNCHANGED <<runVars, serviceVars>>

NextImports ==
    \/ EnsureImportCall
    \/ EnsureImportAgainCall
    \/ AddImportStubCall
    \/ AddImportStubAgainCall

SpecImports == InitConfined /\ [][NextImports]_vars

----------------------------------------------------------------------------
(* C26 *)

\* C26 as stated: ensureImport and addImportStub are idempotent: for every
\* content, binding name and module name, the function applied to its own
\* output returns that output unchanged.
ImportsAreIdempotent ==
    (call.fn \in {"ensureImport", "addImportStub"} /\ call.times = 2) => call.result = call.content

----------------------------------------------------------------------------
(* Two processes of the command-line tool on one registry file: each runs its
   plan, then updateRegistry reads the file, merges and writes, step by step *)

MaxClock == 2

\* A file named "timeout" and a file named "f"; neither exists
FileTimeout == <<"t", "i", "m", "e", "o", "u", "t">>

FileF == <<"f">>

UpdaterPlans ==
    { [id |-> PlanId, ops |-> [i \in DOMAIN ts |-> [ts[i] EXCEPT !.id = OpId(i)]]] :
         ts \in { <<SearchReplaceOp(FileTimeout, <<"x">>, <<"y">>)>>,
                  <<SearchReplaceOp(FileF, <<"x">>, <<"y">>)>>,
                  <<SearchReplaceOp(FileF, <<"x">>, <<"y">>), SearchReplaceOp(FileTimeout, <<"x">>, <<"y">>)>> } }

\* main() up to the return of runPlan, with --dry-run
UpdaterRunPlan(u) ==
    /\ updaters[u].pc = "start"
    /\ \E p \in UpdaterPlans :
          updaters' = [updaters EXCEPT ![u].pc = "ran", ![u].plan = p,
                                       ![u].results = RunLoop(p.ops, 1, LoadTaskEnvelope.scope, files, TRUE, <<>>).results]
    /\ UNCHANGED <<runVars, call, config, defaultRegistry, registry, registryFile, mergeLog>>

\* The arrays of the registry that readRegistry returns in a new process,
\* whose DEFAULT_REGISTRY is empty
ArraysRead(read) ==
    [observations |-> IF read.registry.obsShared THEN <<>> ELSE read.registry.observations,
     suggestedOps |-> IF read.registry.sugShared THEN <<>> ELSE read.registry.suggestedOps]

\* updateRegistry: const registry = await readRegistry(); an error thrown is
\* caught, with a warning
UpdaterReadAs(u, read) ==
    updaters' = IF read.threw THEN [updaters EXCEPT ![u].pc = "done"]
                ELSE [updaters EXCEPT ![u].pc = "read", ![u].read = ArraysRead(read), ![u].registry = ArraysRead(read)]

UpdaterRead(u) ==
    /\ updaters[u].pc = "ran"
    /\ UpdaterReadAs(u, ReadRegistry(registryFile))
    /\ UNCHANGED <<runVars, call, config, defaultRegistry, registry, registryFile, mergeLog>>

\* updateRegistry: the loop over planResult.results, at the time now
UpdaterMerge(u) ==
    /\ updaters[u].pc = "read"
    /\ \E now \in 1..MaxClock :
          updaters' = [updaters EXCEPT ![u].pc = "merged", ![u].now = now,
                                       ![u].registry = RecordFailures(updaters[u].registry, updaters[u].results,
                                                                      updaters[u].plan, now)]
    /\ UNCHANGED <<runVars, call, config, defaultRegistry, registry, registryFile, mergeLog>>

\* A file that fs.writeFile has opened and truncated, or whose content is
\* the data of one writer laid over the longer data of another
TornFile == [kind |-> "corrupt"]

\* writeRegistry: fs.writeFile opens the file, which truncates it
UpdaterOpen(u) ==
    /\ updaters[u].pc = "merged"
    /\ updaters' = [updaters EXCEPT ![u].pc = "writing"]
    /\ registryFile' = TornFile
    /\ UNCHANGED <<runVars, call, config, defaultRegistry, registry, mergeLog>>

\* A write that adds the observations of the file that are not among the data
MergedIntoFile(current, data) ==
    IF current.kind = "json"
    THEN [data EXCEPT !.observations = @ \o SelectSeq(current.observations,
                                                       LAMBDA o : \A k \in DOMAIN data.observations :
                                                                     data.observations[k].file # o.file)]
    ELSE data

\* The content of the file after the data have been written from its start:
\* the data replace what was there
WrittenOver(current, data) == data

\* writeRegistry: fs.writeFile writes JSON.stringify(registry).  When another
\* process has written since this one opened the file, the data are laid
\* over the other's, and the tail of longer data stays: the file holds this
\* writer's registry, or no JSON
UpdaterWrite(u) ==
    /\ updaters[u].pc = "writing"
    /\ updaters' = [updaters EXCEPT ![u].pc = "done", ![u].wrote = TRUE]
    /\ \/ registryFile' = WrittenOver(registryFile, RegistryJson(updaters[u].registry))
       \/ /\ registryFile.kind = "json"
          /\ registryFile' = TornFile
    /\ UNCHANGED <<runVars, call, config, defaultRegistry, registry, mergeLog>>

NextUpdaters ==
    \/ \E u \in Updaters : UpdaterRunPlan(u)
    \/ \E u \in Updaters : UpdaterRead(u)
    \/ \E u \in Updaters : UpdaterMerge(u)
    \/ \E u \in Updaters : UpdaterOpen(u)
    \/ \E u \in Updaters : UpdaterWrite(u)

SpecUpdaters == InitConfined /\ [][NextUpdaters]_vars

----------------------------------------------------------------------------
(* C29 *)

\* C29: registry updates that run side by side replace the file, last writer
\* wins: whenever the registry file holds JSON, it is the registry of one
\* process that has written, as that process read and merged it, and never a
\* combination of the registries of both.  (That an update is lost in some
\* execution is what the witness shows.)
FileIsOneWritersRegistry ==
    registryFile.kind = "json"
        => \E u \in Updaters : updaters[u].wrote /\ registryFile = RegistryJson(updaters[u].registry)

FilesObserved(arrays) == {arrays.observations[k].file : k \in DOMAIN arrays.observations}

\* C29 witness: both processes have written, and the file lacks the
\* observation of a file that one of them merged and wrote.
FileIsOneWritersRegistryWitness ==
    /\ \A u \in Updaters : updaters[u].pc = "done" /\ updaters[u].wrote
    /\ registryFile.kind = "json"
    /\ \E u \in Updaters : FilesObserved(updaters[u].registry) \ FilesObserved(registryFile) # {}

----------------------------------------------------------------------------
(* C21 *)

\* The words of the engine's error messages, letter by letter
WordSpellings ==
    { <<"File", <<"F", "i", "l", "e">>>>,
      <<"does", <<"d", "o", "e", "s">>>>,
      <<"not", <<"n", "o", "t">>>>,
      <<"exist", <<"e", "x", "i", "s", "t">>>>,
      <<"All", <<"A", "l", "l">>>>,
      <<"patch", <<"p", "a", "t", "c", "h">>>>,
      <<"strategies", <<"s", "t", "r", "a", "t", "e", "g", "i", "e", "s">>>>,
      <<"failed", <<"f", "a", "i", "l", "e", "d">>>>,
      <<"for", <<"f", "o", "r">>>>,
      <<"operation", <<"o", "p", "e", "r", "a", "t", "i", "o", "n">>>>,
      <<"op", <<"o", "p">>>> }

Spelled(t) == IF \E w \in WordSpellings : w[1] = t THEN (CHOOSE w \in WordSpellings : w[1] = t)[2] ELSE <<t>>

\* A message of the engine as the string of characters the classifier reads
RECURSIVE SpellOut(_)
SpellOut(message) == IF message = <<>> THEN <<>> ELSE Spelled(Head(message)) \o SpellOut(Tail(message))

\* The error report of updateRegistry, with the classification the classifier
\* assigns to the message
ClassifiedReport(originalOp, result, now) ==
    [CliErrorReport(originalOp, result, now) EXCEPT !.classification = ClassifyToolMessage(SpellOut(result.error))]

\* The observations and suggestions of the failed results, with every report
\* classified by the classifier
RECURSIVE RecordClassified(_, _, _, _)
RecordClassified(arrays, rs, p, now) ==
    IF rs = <<>> THEN arrays
    ELSE IF Head(rs).outcome = "failure" /\ Head(rs).error # <<>> /\ FoundOp(p, Head(rs).opId)
    THEN RecordClassified(RecordFailure(arrays, ClassifiedReport(FindOp(p, Head(rs).opId), Head(rs), now),
                                        FindOp(p, Head(rs).opId), now),
                          Tail(rs), p, now)
    ELSE RecordClassified(arrays, Tail(rs), p, now)

\* C21 as stated: in the CLI flow every observation persisted for a failed
\* operation carries the classification that classifyToolMessage assigns to the
\* operation's error message, and the suggestions stored with it are the ones
\* inferred for that classification.
PersistedCarriesClassification ==
    \A u \in Updaters :
        updaters[u].wrote
            => updaters[u].registry = RecordClassified(updaters[u].read, updaters[u].results, updaters[u].plan,
                                                       updaters[u].now)

====
